---- MODULE Spec2Model ----
(***************************************************************************)
(* Model of process_pillz: the scan loop (pill_manager.go), the D-Bus      *)
(* actions and the renice check (actions.go) and the main select loop      *)
(* (main.go).                                                              *)
(*                                                                         *)
(* Strings whose content the code inspects (command lines, trigger keys,   *)
(* pill values) are sequences of one-character strings, so that            *)
(* strings.Contains, strings.Split and strconv.Atoi are computed.          *)
(***************************************************************************)
EXTENDS Integers, Sequences, FiniteSets, TLC

VARIABLES
    cfg,            \* the loaded Config (Triggers, Pills); fixed after startup
    os,             \* the host's process table: pid -> process or Dead
    events,         \* number of process-table changes so far (bounded)
    CurrentPill,    \* pm.CurrentPill
    currentProc,    \* pm.currentProc
    currentParent,  \* pm.currentParent
    knownProcs,     \* pm.knownProcs : pid -> ProcessInfo
    currentScan,    \* pm.currentScan (set of pids seen in the last scan)
    dbusConn,       \* pm.dbusConn # nil
    pc,             \* position of main(): "start", "loop", "exited", "crashed"
    exitCode,       \* exit status once pc is "exited" or "crashed"
    sigChan,        \* number of signals buffered in sigChan (capacity 1)
    restartChan,    \* number of requests buffered in restartChan (capacity 1)
    last,           \* what the step taken last did (observation record)
    first,          \* SpecEat only: the outcome of the first of two eatPill calls
    at,             \* SpecLoop only: what each thread of control is executing
    scans           \* SpecNice only: scans that returned since the pill was taken

vars == <<cfg, os, events, CurrentPill, currentProc, currentParent, knownProcs,
          currentScan, dbusConn, pc, exitCode, sigChan, restartChan, last, first,
          at, scans>>

----------------------------------------------------------------------------
(* Bounds of the model *)

\* pids 1..MaxPid exist; pid 1 is the init process
MaxPid == 3
\* SpecNice: pids 1..MaxTree exist and form a process tree that stays
MaxTree == 4
\* SpecChurn: at most MaxChurn processes are started or gone
MaxChurn == 4
\* at most MaxEvents events of the environment in a behaviour: a process
\* spawned or gone, a signal delivered, a configuration change, a call that
\* fails (bus fault, vanished process, EPERM, failed listing)
MaxEvents == 3
\* SpecMatch: command lines of at most MaxCmd letters
MaxCmd == 3

----------------------------------------------------------------------------
(* Strings *)

\* strings.Contains(s, sub)
Contains(s, sub) ==
    \E i \in 0..(Len(s) - Len(sub)) : SubSeq(s, i + 1, i + Len(sub)) = sub

\* index of the first " " in s, 0 if none
RECURSIVE IndexSpace(_, _)
IndexSpace(s, i) ==
    IF i > Len(s) THEN 0
    ELSE IF s[i] = " " THEN i
    ELSE IndexSpace(s, i + 1)

\* strings.Split(s, " ")
RECURSIVE Split(_)
Split(s) ==
    LET i == IndexSpace(s, 1)
    IN  IF i = 0 THEN <<s>>
        ELSE <<SubSeq(s, 1, i - 1)>> \o Split(SubSeq(s, i + 1, Len(s)))

DigitVal == [c \in {"0", "1", "2", "3", "4", "5", "6", "7", "8", "9"} |->
                CASE c = "0" -> 0 [] c = "1" -> 1 [] c = "2" -> 2 [] c = "3" -> 3
                  [] c = "4" -> 4 [] c = "5" -> 5 [] c = "6" -> 6 [] c = "7" -> 7
                  [] c = "8" -> 8 [] c = "9" -> 9]

RECURSIVE DigitsVal(_, _)
DigitsVal(s, acc) ==
    IF s = <<>> THEN acc ELSE DigitsVal(Tail(s), 10 * acc + DigitVal[Head(s)])

\* strconv.Atoi(s): [err |-> TRUE] or [err |-> FALSE, val |-> n]
Atoi(s) ==
    LET signed == s # <<>> /\ Head(s) \in {"+", "-"}
        body   == IF signed THEN Tail(s) ELSE s
    IN  IF body = <<>> \/ \E i \in 1..Len(body) : body[i] \notin DOMAIN DigitVal
        THEN [err |-> TRUE, val |-> 0]
        ELSE [err |-> FALSE,
              val |-> IF signed /\ Head(s) = "-"
                      THEN 0 - DigitsVal(body, 0) ELSE DigitsVal(body, 0)]

----------------------------------------------------------------------------
(* Configuration (Config in main.go): Triggers and Pills *)

none == <<"n", "o", "n", "e">>

\* Scenario configuration, with a nice key in "default", an out-of-range
\* nice, an out-of-range scheduler mode, an unknown key and a trigger bound
\* to a pill that does not exist.
CfgMain ==
    [Triggers |-> (<<"g">> :> "game") @@ (<<"a">> :> "ai") @@ (<<"u">> :> "ghost"),
     Pills    |-> ("default" :> (("scx" :> none) @@ ("tuned" :> <<"d">>) @@ ("nice" :> <<"5">>)))
               @@ ("game" :> (("tuned" :> <<"G">>) @@ ("scx" :> <<"l", " ", "1">>)
                              @@ ("nice" :> <<"-", "1", "0">>)))
               @@ ("ai" :> (("scx" :> <<"b", " ", "9">>) @@ ("nice" :> <<"2", "5">>)
                            @@ ("bogus" :> <<"x">>)))]

\* A trigger bound to "default", a nice key in "default", a non-numeric nice,
\* a scheduler without mode.
CfgAlt ==
    [Triggers |-> (<<"g">> :> "game") @@ (<<"a">> :> "default"),
     Pills    |-> ("default" :> (("scx" :> none) @@ ("nice" :> <<"5">>)))
               @@ ("game" :> (("scx" :> <<"l">>) @@ ("nice" :> <<"x">>)
                              @@ ("tuned" :> <<"G">>)))]

Configs == {CfgMain, CfgAlt}

\* Triggers that overlap, and two triggers bound to one pill.
CfgMany ==
    [Triggers |-> (<<"g">> :> "game") @@ (<<"x", "g">> :> "ai") @@ (<<"a">> :> "game")
                  @@ (<<"a", "a">> :> "ghost"),
     Pills    |-> CfgMain.Pills]

\* the command lines of at most MaxCmd letters
CmdLines == UNION {[1..n -> {"g", "a", "x"}] : n \in 0..MaxCmd}

----------------------------------------------------------------------------
(* The host: users, programs and the process table *)

userName == "me"

Dead == [user |-> "", cmd |-> <<>>, name |-> "", ppid |-> -1]

InitProc == [user |-> "root", cmd |-> <<"i">>, name |-> "systemd", ppid |-> 0]

Programs ==
    { [user |-> "me",   cmd |-> <<"x", "g">>, name |-> "game"],
      [user |-> "me",   cmd |-> <<"a">>,      name |-> "ai"],
      [user |-> "me",   cmd |-> <<"s", "u">>, name |-> "steam"],
      [user |-> "root", cmd |-> <<"x", "g">>, name |-> "game"] }

Pids == 1..MaxPid

Alive(o, pid) == pid \in DOMAIN o /\ o[pid] # Dead

\* process.NewProcess(pid): err == nil iff the pid exists (pid <= 0 is invalid)
NewProcessOk(o, pid) == Alive(o, pid)

\* invalidParents, pill_manager.go
invalidParents == {"systemd", "srt-bwrap", "steam"}

----------------------------------------------------------------------------
(* External control bridge (actions.go) *)

maxRetries == 3

\* How the bus and the two services behave during one operation of main():
\*   fault        what goes wrong, "none" when nothing does
\*   connFails    ConnectSystemBus attempts that fail before one succeeds
\*   scxProp      result of GetProperty(SupportedSchedulers)
\*   supported    the advertised scheduler list
\*   scxCall      result of SwitchScheduler / StopScheduler
\*   tunedQuery   result of the profiles() call ("err": no reply body)
\*   profiles     the advertised TuneD profile list
\*   tunedCall    result of switch_profile
\*   scxFirst     map iteration order of the pill's keys: scx before tuned
Healthy ==
    [fault |-> "none", connFails |-> 0, scxProp |-> "ok", supported |-> {<<"l">>, <<"b">>},
     scxCall |-> "ok", tunedQuery |-> "ok", profiles |-> {<<"d">>, <<"G">>},
     tunedCall |-> "ok", scxFirst |-> TRUE]

Faulty ==
    { [Healthy EXCEPT !.fault = "conn1",      !.connFails = 1],
      [Healthy EXCEPT !.fault = "conn3",      !.connFails = maxRetries],
      [Healthy EXCEPT !.fault = "scxProp",    !.scxProp = "err"],
      [Healthy EXCEPT !.fault = "scxList",    !.supported = {<<"b">>}],
      [Healthy EXCEPT !.fault = "scxCall",    !.scxCall = "err"],
      [Healthy EXCEPT !.fault = "tunedQuery", !.tunedQuery = "err"],
      [Healthy EXCEPT !.fault = "tunedList",  !.profiles = {<<"d">>}],
      [Healthy EXCEPT !.fault = "tunedCall",  !.tunedCall = "err"] }

BusBehaviours ==
    {[b EXCEPT !.scxFirst = f] : b \in {Healthy} \cup Faulty, f \in BOOLEAN}

Call(op, name, mode) == [op |-> op, name |-> name, mode |-> mode]

\* Outcome of one bridge function: the connection afterwards, the number of
\* ConnectSystemBus attempts, the bus calls issued, the error returned ("" for
\* nil, else the step that failed), and whether the function panicked instead
\* of returning.
Outcome(conn, attempts, calls, err, panic) ==
    [conn |-> conn, attempts |-> attempts, calls |-> calls, err |-> err, panic |-> panic]

\* connectToDbus that connects again when a connection is held
connectToDbus_Reconnect(conn, bus) ==
    IF bus.connFails < maxRetries
    THEN [conn |-> TRUE, attempts |-> bus.connFails + 1, err |-> FALSE]
    ELSE [conn |-> conn, attempts |-> maxRetries, err |-> ~conn]

\* connectToDbus
connectToDbus(conn, bus) ==
    IF conn THEN [conn |-> TRUE, attempts |-> 0, err |-> FALSE]
    ELSE IF bus.connFails < maxRetries
         THEN [conn |-> TRUE, attempts |-> bus.connFails + 1, err |-> FALSE]
         ELSE [conn |-> FALSE, attempts |-> maxRetries, err |-> TRUE]

\* setTunedProfile
setTunedProfile(conn, profile, bus) ==
    LET c  == connectToDbus(conn, bus)
        q  == Call("profiles", <<>>, 0)
        sw == Call("switch_profile", profile, 0)
    IN  IF c.err THEN Outcome(c.conn, c.attempts, <<>>, "connect", FALSE)
        \* Body[0] of a reply without body: index out of range
        ELSE IF bus.tunedQuery = "err" THEN Outcome(c.conn, c.attempts, <<q>>, "", TRUE)
        ELSE IF profile \notin bus.profiles
             THEN Outcome(c.conn, c.attempts, <<q>>, "invalid profile", FALSE)
        ELSE Outcome(c.conn, c.attempts, <<q, sw>>,
                     IF bus.tunedCall = "err" THEN "switch_profile" ELSE "", FALSE)

\* scxMode that passes any integer on
scxMode_NoRange(args) ==
    IF Len(args) > 1
    THEN LET i == Atoi(args[2])
         IN  IF i.err THEN 0 ELSE i.val
    ELSE 0

\* scxMode that ignores the second word
scxMode_Zero(args) == 0

\* the scheduler mode parsed from the second word of the scx value
scxMode(args) ==
    IF Len(args) > 1
    THEN LET i == Atoi(args[2])
         IN  IF i.err \/ i.val < 0 \/ i.val > 4 THEN 0 ELSE i.val
    ELSE 0

\* setScx that does not look the scheduler up in the advertised list
setScx_Unchecked(conn, scx, bus) ==
    LET c     == connectToDbus(conn, bus)
        args  == Split(scx)
        q     == Call("SupportedSchedulers", <<>>, 0)
    IN  IF c.err THEN Outcome(c.conn, c.attempts, <<>>, "connect", FALSE)
        ELSE IF scx = none
             THEN Outcome(c.conn, c.attempts, <<Call("StopScheduler", <<>>, 0)>>,
                          IF bus.scxCall = "err" THEN "StopScheduler" ELSE "", FALSE)
        ELSE IF bus.scxProp = "err"
             THEN Outcome(c.conn, c.attempts, <<q>>, "SupportedSchedulers", FALSE)
        ELSE Outcome(c.conn, c.attempts,
                     <<q, Call("SwitchScheduler", args[1], scxMode(args))>>,
                     IF bus.scxCall = "err" THEN "SwitchScheduler" ELSE "", FALSE)

\* setScx
setScx(conn, scx, bus) ==
    LET c     == connectToDbus(conn, bus)
        args  == Split(scx)
        sched == args[1]
        q     == Call("SupportedSchedulers", <<>>, 0)
    IN  IF c.err THEN Outcome(c.conn, c.attempts, <<>>, "connect", FALSE)
        ELSE IF scx = none
             THEN Outcome(c.conn, c.attempts, <<Call("StopScheduler", <<>>, 0)>>,
                          IF bus.scxCall = "err" THEN "StopScheduler" ELSE "", FALSE)
        ELSE IF bus.scxProp = "err"
             THEN Outcome(c.conn, c.attempts, <<q>>, "SupportedSchedulers", FALSE)
        ELSE IF sched \notin bus.supported
             THEN Outcome(c.conn, c.attempts, <<q>>, "invalid scheduler", FALSE)
        ELSE Outcome(c.conn, c.attempts,
                     <<q, Call("SwitchScheduler", sched, scxMode(args))>>,
                     IF bus.scxCall = "err" THEN "SwitchScheduler" ELSE "", FALSE)

\* the switch/stop calls among the bus calls issued
RECURSIVE ControlCalls(_)
ControlCalls(calls) ==
    IF calls = <<>> THEN <<>>
    ELSE IF Head(calls).op \in {"StopScheduler", "SwitchScheduler", "switch_profile"}
         THEN <<Head(calls)>> \o ControlCalls(Tail(calls))
         ELSE ControlCalls(Tail(calls))

----------------------------------------------------------------------------
(* Pill manager (pill_manager.go) *)

\* ProcessInfo
ProcessInfo(name, cmd, user, reniced) ==
    [Name |-> name, Cmdline |-> cmd, Username |-> user, Reniced |-> reniced]

\* getValidParent(p): parErr is a failure of p.Parent() or of its Name()
\* caused by a process that vanished meanwhile
getValidParent(o, p, parErr) ==
    LET ppid == o[p].ppid
    IN  IF parErr \/ ~Alive(o, p) \/ ~Alive(o, ppid) THEN p
        ELSE IF o[ppid].name \in invalidParents THEN -1
        ELSE ppid

\* for every configuration and command line, the pills bound to the
\* triggers that strings.Contains finds in the command line
TriggerTable ==
    [c \in Configs \cup {CfgMany} |->
       [cmd \in {g.cmd : g \in Programs} \cup {InitProc.cmd, <<>>} \cup CmdLines |->
          {c.Triggers[t] : t \in {u \in DOMAIN c.Triggers : Contains(cmd, u)}}]]

\* the pills bound to the triggers contained in cmd
MatchingPills(c, cmd) == TriggerTable[c][cmd]

\* checkTriggerMatch with strings.HasPrefix in the place of strings.Contains
checkTriggerMatch_Prefix(c, cmd, pick) ==
    LET m == {c.Triggers[t] : t \in {u \in DOMAIN c.Triggers :
                                        Len(u) <= Len(cmd) /\ SubSeq(cmd, 1, Len(u)) = u}}
    IN  IF m = {} THEN ""
        ELSE IF pick \in m THEN pick
        ELSE CHOOSE x \in m : TRUE

\* checkTriggerMatch(cmd), for a map iteration whose first trigger contained
\* in cmd is bound to pick (any of the matching ones when pick is not one)
checkTriggerMatch(c, cmd, pick) ==
    LET m == MatchingPills(c, cmd)
    IN  IF m = {} THEN ""
        ELSE IF pick \in m THEN pick
        ELSE CHOOSE x \in m : TRUE

\* settings := pm.Pillz[pillName] (a nil map when there is no such pill)
Settings(c, pillName) ==
    IF pillName \in DOMAIN c.Pills THEN c.Pills[pillName] ELSE <<>>

NoOutcome(conn) == Outcome(conn, 0, <<>>, "", FALSE)

\* one case of the switch in the loop of eatPill over the keys of the pill,
\* for the key "scx" or "tuned"; nothing is done when the pill has no such key
SwitchCase(settings, key, conn, bus) ==
    IF key \notin DOMAIN settings THEN NoOutcome(conn)
    ELSE IF key = "scx" THEN setScx(conn, settings[key], bus)
    ELSE setTunedProfile(conn, settings[key], bus)

\* what two cases of the loop did, r1 before r2
Both(r1, r2) ==
    [conn     |-> r2.conn,
     attempts |-> r1.attempts + r2.attempts,
     calls    |-> r1.calls \o r2.calls,
     errs     |-> {r1.err, r2.err} \ {""},
     panic    |-> r1.panic \/ r2.panic]

\* the loop after its first case did r1: the case of the other key, unless
\* the first one panicked
OtherCase(settings, key, r1, bus) ==
    Both(r1, IF r1.panic THEN NoOutcome(r1.conn)
             ELSE SwitchCase(settings, key, r1.conn, bus))

\* the dispatch loop of eatPill over the keys of the pill
Dispatch(c, conn, pillName, bus) ==
    LET settings == Settings(c, pillName)
    IN  OtherCase(settings, IF bus.scxFirst THEN "tuned" ELSE "scx",
                  SwitchCase(settings, IF bus.scxFirst THEN "scx" ELSE "tuned", conn, bus),
                  bus)

\* ClearReniced that leaves the flags as they are
ClearReniced_Keep(known) == known

\* ClearReniced that flips the flags instead of clearing them
ClearReniced_Toggle(known) ==
    [q \in DOMAIN known |-> [known[q] EXCEPT !.Reniced = ~@]]

\* Reseting the known processes
ClearReniced(known) ==
    [q \in DOMAIN known |-> [known[q] EXCEPT !.Reniced = FALSE]]

\* eatPill that leaves the pill, the anchor and the flags as they were when
\* a call of its dispatch loop has failed
AfterDispatch_SkipOnError(o, m, p, pillName, parErr, d) ==
    IF d.panic \/ d.errs # {}
    THEN [m EXCEPT !.conn = d.conn, !.panic = d.panic,
                   !.calls = @ \o d.calls, !.attempts = @ + d.attempts,
                   !.errs = @ \cup d.errs,
                   !.eats = Append(@, <<p, pillName>>)]
    ELSE [m EXCEPT !.conn = d.conn,
                   !.calls = @ \o d.calls, !.attempts = @ + d.attempts,
                   !.errs = @ \cup d.errs,
                   !.eats = Append(@, <<p, pillName>>),
                   !.known = ClearReniced(@),
                   !.proc = IF p # 0 THEN p ELSE 0,
                   !.parent = IF p # 0 THEN getValidParent(o, p, parErr) ELSE 0,
                   !.pill = pillName]

\* eatPill(p, pillName) after its dispatch loop did d.  A panic of the loop
\* leaves the manager state as it was.
AfterDispatch(o, m, p, pillName, parErr, d) ==
    IF d.panic
    THEN [m EXCEPT !.conn = d.conn, !.panic = TRUE,
                   !.calls = @ \o d.calls, !.attempts = @ + d.attempts,
                   !.errs = @ \cup d.errs,
                   !.eats = Append(@, <<p, pillName>>)]
    ELSE [m EXCEPT !.conn = d.conn,
                   !.calls = @ \o d.calls, !.attempts = @ + d.attempts,
                   !.errs = @ \cup d.errs,
                   !.eats = Append(@, <<p, pillName>>),
                   !.known = ClearReniced(@),
                   !.proc = IF p # 0 THEN p ELSE 0,
                   !.parent = IF p # 0 THEN getValidParent(o, p, parErr) ELSE 0,
                   !.pill = pillName]

\* The manager state as a record, with what the operation at hand has done
\* so far: the bus calls, connection attempts and failed bridge calls, the
\* eatPill invocations, the Setpriority requests.
Manager ==
    [pill |-> CurrentPill, proc |-> currentProc, parent |-> currentParent,
     known |-> knownProcs, seen |-> currentScan, conn |-> dbusConn,
     calls |-> <<>>, attempts |-> 0, errs |-> {}, eats |-> <<>>, prio |-> {},
     keep |-> FALSE, newPill |-> "", trig |-> 0, panic |-> FALSE]

\* eatPill(p, pillName); p = 0 stands for nil
eatPill(c, o, m, p, pillName, bus, parErr) ==
    AfterDispatch(o, m, p, pillName, parErr, Dispatch(c, m.conn, pillName, bus))

\* reniceCheck that flags the process whether Setpriority succeeds or not
reniceCheck_FlagAlways(o, m, p, nice, fails) ==
    LET ppid == o[p].ppid
        parentReniced == ppid \in DOMAIN m.known /\ m.known[ppid].Reniced
    IN  IF p \notin DOMAIN m.known THEN m
        ELSE IF m.known[p].Reniced THEN m
        ELSE IF <<p, "parent">> \in fails \/ ~Alive(o, ppid) THEN m
        ELSE IF parentReniced \/ ppid = m.parent \/ p = m.proc
             THEN [m EXCEPT !.prio = @ \cup {<<p, nice, <<p, "prio">> \notin fails>>},
                            !.known[p].Reniced = TRUE]
        ELSE m

\* reniceCheck without the test of eligibility
reniceCheck_Everyone(o, m, p, nice, fails) ==
    LET ppid == o[p].ppid
    IN  IF p \notin DOMAIN m.known THEN m
        ELSE IF m.known[p].Reniced THEN m
        ELSE IF <<p, "parent">> \in fails \/ ~Alive(o, ppid) THEN m
        ELSE IF <<p, "prio">> \in fails
             THEN [m EXCEPT !.prio = @ \cup {<<p, nice, FALSE>>}]
             ELSE [m EXCEPT !.prio = @ \cup {<<p, nice, TRUE>>},
                            !.known[p].Reniced = TRUE]

\* reniceCheck that does not look at the flag of the parent
reniceCheck_NoParentFlag(o, m, p, nice, fails) ==
    LET ppid == o[p].ppid
    IN  IF p \notin DOMAIN m.known THEN m
        ELSE IF m.known[p].Reniced THEN m
        ELSE IF <<p, "parent">> \in fails \/ ~Alive(o, ppid) THEN m
        ELSE IF ppid = m.parent \/ p = m.proc
             THEN IF <<p, "prio">> \in fails
                  THEN [m EXCEPT !.prio = @ \cup {<<p, nice, FALSE>>}]
                  ELSE [m EXCEPT !.prio = @ \cup {<<p, nice, TRUE>>},
                                 !.known[p].Reniced = TRUE]
        ELSE m

\* reniceCheck(p, nice); fails holds the calls that fail for a process
reniceCheck(o, m, p, nice, fails) ==
    LET ppid == o[p].ppid
        parentReniced == ppid \in DOMAIN m.known /\ m.known[ppid].Reniced
    IN  IF p \notin DOMAIN m.known THEN m
        ELSE IF m.known[p].Reniced THEN m
        ELSE IF <<p, "parent">> \in fails \/ ~Alive(o, ppid) THEN m
        ELSE IF parentReniced \/ ppid = m.parent \/ p = m.proc
             THEN IF <<p, "prio">> \in fails
                  THEN [m EXCEPT !.prio = @ \cup {<<p, nice, FALSE>>}]
                  ELSE [m EXCEPT !.prio = @ \cup {<<p, nice, TRUE>>},
                                 !.known[p].Reniced = TRUE]
        ELSE m

\* NiceOf without the test for the pill "default"
NiceOf_AnyPill(c, pill) ==
    LET curPill == IF pill \in DOMAIN c.Pills THEN c.Pills[pill] ELSE <<>>
        isNice  == "nice" \in DOMAIN curPill
        n       == IF isNice THEN Atoi(curPill["nice"]) ELSE [err |-> TRUE, val |-> 0]
    IN  IF isNice
        THEN IF n.err \/ n.val < -20 \/ n.val > 20
             THEN [isNice |-> FALSE, nice |-> 0, invalid |-> TRUE]
             ELSE [isNice |-> TRUE, nice |-> n.val, invalid |-> FALSE]
        ELSE [isNice |-> FALSE, nice |-> 0, invalid |-> FALSE]

\* NiceOf without the test of the range
NiceOf_NoRange(c, pill) ==
    LET curPill == IF pill \in DOMAIN c.Pills THEN c.Pills[pill] ELSE <<>>
        isNice  == "nice" \in DOMAIN curPill
        n       == IF isNice THEN Atoi(curPill["nice"]) ELSE [err |-> TRUE, val |-> 0]
    IN  IF isNice /\ pill # "default"
        THEN IF n.err
             THEN [isNice |-> FALSE, nice |-> 0, invalid |-> TRUE]
             ELSE [isNice |-> TRUE, nice |-> n.val,
                   invalid |-> n.val < -20 \/ n.val > 20]
        ELSE [isNice |-> FALSE, nice |-> 0, invalid |-> FALSE]

\* the nice value of the current pill: isNice and nice of scanProcesses
NiceOf(c, pill) ==
    LET curPill == Settings(c, pill)
        isNice  == "nice" \in DOMAIN curPill
        n       == IF isNice THEN Atoi(curPill["nice"]) ELSE [err |-> TRUE, val |-> 0]
    IN  IF isNice /\ pill # "default"
        THEN IF n.err \/ n.val < -20 \/ n.val > 20
             THEN [isNice |-> FALSE, nice |-> 0, invalid |-> TRUE]
             ELSE [isNice |-> TRUE, nice |-> n.val, invalid |-> FALSE]
        ELSE [isNice |-> FALSE, nice |-> 0, invalid |-> FALSE]

\* Lookup that reads the command line of a cached process again
Lookup_Refresh(o, known, p, fails) ==
    IF p \in DOMAIN known
    THEN [skip |-> FALSE, known |-> [known EXCEPT ![p].Cmdline = o[p].cmd]]
    ELSE IF <<p, "user">> \in fails THEN [skip |-> TRUE, known |-> known]
    ELSE IF o[p].user # userName THEN [skip |-> TRUE, known |-> known]
    ELSE [skip |-> FALSE,
          known |-> (p :> ProcessInfo(o[p].name,
                                      IF <<p, "cmd">> \in fails THEN <<>> ELSE o[p].cmd,
                                      o[p].user, FALSE)) @@ known]

\* the cache lookup and fill for one listed process: the cache afterwards,
\* or the cache unchanged and skip when the loop continues
Lookup(o, known, p, fails) ==
    IF p \in DOMAIN known THEN [skip |-> FALSE, known |-> known]
    ELSE IF <<p, "user">> \in fails THEN [skip |-> TRUE, known |-> known]
    ELSE IF o[p].user # userName THEN [skip |-> TRUE, known |-> known]
    ELSE [skip |-> FALSE,
          known |-> (p :> ProcessInfo(o[p].name,
                                      IF <<p, "cmd">> \in fails THEN <<>> ELSE o[p].cmd,
                                      o[p].user, FALSE)) @@ known]

\* Match that does not look the matched pill up in the catalog
Match_Unchecked(c, m, p, pick) ==
    LET pillName == checkTriggerMatch(c, m.known[p].Cmdline, pick)
    IN  IF m.keep \/ pillName = "" THEN m
        ELSE IF pillName = m.pill THEN [m EXCEPT !.keep = TRUE, !.trig = p]
        ELSE [m EXCEPT !.newPill = pillName, !.trig = p]

\* the trigger test of one listed process
Match(c, m, p, pick) ==
    LET pillName == checkTriggerMatch(c, m.known[p].Cmdline, pick)
    IN  IF m.keep \/ pillName = "" THEN m
        ELSE IF pillName = m.pill THEN [m EXCEPT !.keep = TRUE, !.trig = p]
        ELSE IF pillName \in DOMAIN c.Pills THEN [m EXCEPT !.newPill = pillName, !.trig = p]
        ELSE m

\* the body of the loop over the listed processes, for process p
ScanOne(c, o, m, p, nc, fails, pick) ==
    LET l  == Lookup(o, m.known, p, fails)
        m1 == [m EXCEPT !.known = l.known, !.seen = @ \cup {p}]
        m2 == Match(c, m1, p, pick)
    IN  IF l.skip THEN m
        ELSE IF nc.isNice /\ ~m2.known[p].Reniced
             THEN reniceCheck(o, m2, p, nc.nice, fails)
             ELSE m2

\* the loop over the listed processes, in the order of the listing (by pid)
RECURSIVE ScanLoop(_, _, _, _, _, _, _)
ScanLoop(c, o, m, p, nc, fails, pick) ==
    IF p > Len(o) THEN m
    ELSE IF ~Alive(o, p) THEN ScanLoop(c, o, m, p + 1, nc, fails, pick)
    ELSE ScanLoop(c, o, ScanOne(c, o, m, p, nc, fails, pick), p + 1, nc, fails, pick)

\* Purge that removes nothing
Purge_Nothing(m) == m

\* Removing missing processes from pm.knownProcs
Purge(m) ==
    [m EXCEPT !.known = [q \in (DOMAIN m.known) \cap m.seen |-> m.known[q]]]

\* Decision without the branch that switches to a matched pill
Decision_NoSwitch(m) ==
    IF ~m.keep /\ m.pill # "default" THEN "revert"
    ELSE IF m.keep /\ m.trig # m.proc THEN "reanchor"
    ELSE "none"

\* Decision that reverts also when the pill is "default" already
Decision_RevertAlways(m) ==
    IF ~m.keep THEN "revert"
    ELSE IF m.newPill # "" /\ m.newPill # m.pill THEN "switch"
    ELSE IF m.keep /\ m.trig # m.proc THEN "reanchor"
    ELSE "none"

\* Decision that does not revert while no pill has been taken yet
Decision_NoFirstRevert(m) ==
    IF ~m.keep /\ m.pill \notin {"default", ""} THEN "revert"
    ELSE IF m.newPill # "" /\ m.newPill # m.pill THEN "switch"
    ELSE IF m.keep /\ m.trig # m.proc THEN "reanchor"
    ELSE "none"

\* Decision that looks at the matched pill before the lost anchor
Decision_SwitchFirst(m) ==
    IF m.newPill # "" /\ m.newPill # m.pill THEN "switch"
    ELSE IF ~m.keep /\ m.pill # "default" THEN "revert"
    ELSE IF m.keep /\ m.trig # m.proc THEN "reanchor"
    ELSE "none"

\* which branch of the trigger and pills logic a scan takes
Decision(m) ==
    IF ~m.keep /\ m.pill # "default" THEN "revert"
    ELSE IF m.newPill # "" /\ m.newPill # m.pill THEN "switch"
    ELSE IF m.keep /\ m.trig # m.proc THEN "reanchor"
    ELSE "none"

\* ScanCore that starts the loop as if the anchor were gone
ScanCore_NoAnchorTest(c, o, m, fails, pick) ==
    LET m0 == [m EXCEPT !.keep = FALSE, !.trig = 0, !.seen = {}]
    IN  Purge(ScanLoop(c, o, m0, 1, NiceOf(c, m.pill), fails, pick))

\* scanProcesses up to the trigger and pills logic
ScanCore(c, o, m, fails, pick) ==
    LET keep0 == NewProcessOk(o, m.proc)
        m0 == [m EXCEPT !.keep = keep0,
                        !.trig = IF keep0 THEN m.proc ELSE 0,
                        !.seen = {}]
    IN  Purge(ScanLoop(c, o, m0, 1, NiceOf(c, m.pill), fails, pick))

\* Decide that renices the new anchor as soon as it has switched
Decide_ReniceAtOnce(c, o, m, bus, parErr) ==
    LET d  == Decision(m)
        nc == NiceOf(c, m.newPill)
        r  == IF d \in {"revert", "switch"}
              THEN eatPill(c, o, m, IF d = "revert" THEN 0 ELSE m.trig,
                           IF d = "revert" THEN "default" ELSE m.newPill, bus, parErr)
              ELSE IF d = "reanchor"
                   THEN [m EXCEPT !.proc = m.trig,
                                  !.parent = getValidParent(o, m.trig, parErr)]
              ELSE m
    IN  IF d = "switch" /\ nc.isNice /\ ~r.panic /\ m.trig \in DOMAIN r.known
        THEN [r EXCEPT !.prio = @ \cup {<<m.trig, nc.nice, TRUE>>},
                       !.known[m.trig].Reniced = TRUE]
        ELSE r

\* Decide that resets the Reniced flags when it replaces the anchor
Decide_ReanchorClears(c, o, m, bus, parErr) ==
    LET d == Decision(m)
    IN  IF d \in {"revert", "switch"}
        THEN eatPill(c, o, m, IF d = "revert" THEN 0 ELSE m.trig,
                     IF d = "revert" THEN "default" ELSE m.newPill, bus, parErr)
        ELSE IF d = "reanchor"
             THEN [m EXCEPT !.proc = m.trig, !.parent = getValidParent(o, m.trig, parErr),
                            !.known = ClearReniced(@)]
        ELSE m

\* Decide with three tests in a row in place of the if / else if chain
Decide_NoElse(c, o, m, bus, parErr) ==
    LET m1 == IF ~m.keep /\ m.pill # "default"
              THEN eatPill(c, o, m, 0, "default", bus, parErr) ELSE m
        m2 == IF m1.newPill # "" /\ m1.newPill # m1.pill
              THEN eatPill(c, o, m1, m1.trig, m1.newPill, bus, parErr) ELSE m1
    IN  IF m2.keep /\ m2.trig # m2.proc
        THEN [m2 EXCEPT !.proc = m2.trig, !.parent = getValidParent(o, m2.trig, parErr)]
        ELSE m2

\* the trigger and pills logic of scanProcesses
Decide(c, o, m, bus, parErr) ==
    LET d == Decision(m)
    IN  IF d \in {"revert", "switch"}
        THEN eatPill(c, o, m, IF d = "revert" THEN 0 ELSE m.trig,
                     IF d = "revert" THEN "default" ELSE m.newPill, bus, parErr)
        ELSE IF d = "reanchor"
             THEN [m EXCEPT !.proc = m.trig, !.parent = getValidParent(o, m.trig, parErr)]
        ELSE m

----------------------------------------------------------------------------
(* Nondeterministic inputs of one step of main().  What the environment    *)
(* does wrong in a step (a process that vanishes under a call, EPERM, a    *)
(* bus fault, a failed listing) is paid from the budget of MaxEvents; a    *)
(* fault that changes nothing in the step at hand is not enumerated.       *)

\* the failures that can change what a scan does: resolving a process that is
\* not cached yet (Username, Cmdline), and the renice check of a process when
\* nice is in force (Parent, Setpriority).  A failure of Name() only changes
\* the name that is logged and is left out.
FailPairs(c, o, m) ==
    {<<p, k>> : p \in {q \in DOMAIN o : Alive(o, q) /\ o[q].user = userName /\ q \notin DOMAIN m.known},
                k \in {"user", "cmd"}}
    \cup
    {<<p, k>> : p \in {q \in DOMAIN o : Alive(o, q) /\ o[q].user = userName /\ NiceOf(c, m.pill).isNice},
                k \in {"parent", "prio"}}

\* the subsets of pairs with at most n elements
RECURSIVE FailSets(_, _)
FailSets(pairs, n) ==
    IF n <= 0 THEN {{}}
    ELSE LET S == FailSets(pairs, n - 1)
         IN  S \cup {s \cup {f} : s \in S, f \in pairs}

\* the pills a map iteration can resolve an ambiguous command line to
Picks(c, o) ==
    LET amb == UNION {MatchingPills(c, o[p].cmd) :
                        p \in {q \in DOMAIN o : Alive(o, q) /\ Cardinality(MatchingPills(c, o[q].cmd)) > 1}}
    IN  IF amb = {} THEN {""} ELSE amb

\* the number of faults in a behaviour of the bus and of the parent lookup
Faults(bus, parErr) ==
    (IF bus.fault = "none" THEN 0 ELSE 1) + (IF parErr THEN 1 ELSE 0)

\* the behaviours of the bus and of the parent lookup with at most k faults,
\* as pairs <<bus, parErr>>
BehavioursWithin ==
    [k \in 0..2 |-> {be \in BusBehaviours \X BOOLEAN : Faults(be[1], be[2]) <= k}]

\* those within the budget
Behaviours(budget) == BehavioursWithin[IF budget > 2 THEN 2 ELSE budget]

\* of the outcomes in S, each paired with the number of failures it takes,
\* those within the budget, each with the least number that leads to it
Cheapest(S, budget) ==
    {x \in S : x[2] <= budget /\ \A y \in S : y[1] = x[1] => y[2] >= x[2]}

\* the outcomes of the loop of a scan, each with the number of failures it takes
Cores(c, o, m, budget) ==
    Cheapest({<<ScanCore(c, o, m, f, pick), Cardinality(f)>> :
                f \in FailSets(FailPairs(c, o, m), budget), pick \in Picks(c, o)},
             budget)

\* the outcomes of eatPill(p, pillName), each with the number of faults it takes
Eats(c, o, m, p, pillName, budget) ==
    Cheapest({<<eatPill(c, o, m, p, pillName, be[1], be[2]), Faults(be[1], be[2])>> :
                be \in Behaviours(budget)},
             budget)

\* the outcomes of the trigger and pills logic after the loop left core
Decisions(c, o, core, budget) ==
    IF Decision(core) = "none" THEN {<<core, 0>>}
    ELSE Cheapest({<<Decide(c, o, core, be[1], be[2]), Faults(be[1], be[2])>> :
                     be \in Behaviours(budget)},
                  budget)

----------------------------------------------------------------------------
(* Observation of the last step of main() *)

Obs(op, o, m0, core, r) ==
    [op       |-> op,
     pill0    |-> m0.pill, proc0 |-> m0.proc, parent0 |-> m0.parent,
     anchor0  |-> NewProcessOk(o, m0.proc),
     listed   |-> {p \in DOMAIN o : Alive(o, p)},
     decision |-> Decision(core),
     keep     |-> core.keep, newPill |-> core.newPill, trig |-> core.trig,
     eats     |-> r.eats, calls |-> r.calls, attempts |-> r.attempts, errs |-> r.errs,
     prio     |-> r.prio,
     purged   |-> (DOMAIN m0.known) \ (DOMAIN r.known),
     cached   |-> (DOMAIN r.known) \ (DOMAIN m0.known),
     panic    |-> r.panic,
     \* the records that were flagged Reniced before the step and are still cached
     flagged0 |-> {q \in (DOMAIN m0.known) \cap (DOMAIN r.known) : m0.known[q].Reniced},
     \* some scan so far has reverted from a pill to "default"
     reverted |-> last.reverted \/ (op = "scan" /\ m0.pill # "" /\ Decision(core) = "revert"),
     \* the records purged from the cache so far
     purgedRecs |-> last.purgedRecs
                    \cup {<<p, m0.known[p].Cmdline>> : p \in (DOMAIN m0.known) \ (DOMAIN r.known)}]

NoObs ==
    [op |-> "none", pill0 |-> "", proc0 |-> 0, parent0 |-> 0, anchor0 |-> FALSE,
     listed |-> {}, decision |-> "none", keep |-> FALSE, newPill |-> "", trig |-> 0,
     eats |-> <<>>, calls |-> <<>>, attempts |-> 0, errs |-> {}, prio |-> {},
     purged |-> {}, cached |-> {}, panic |-> FALSE, flagged0 |-> {},
     reverted |-> FALSE, purgedRecs |-> {}]

\* the observation after a step of the environment: nothing but the history
EnvObs == [NoObs EXCEPT !.op = "env", !.reverted = last.reverted,
                        !.purgedRecs = last.purgedRecs]

NoFirst == [done |-> FALSE]

\* the manager fields of r become the state
Commit(r) ==
    /\ CurrentPill' = r.pill
    /\ currentProc' = r.proc
    /\ currentParent' = r.parent
    /\ knownProcs' = r.known
    /\ currentScan' = r.seen
    /\ dbusConn' = r.conn

----------------------------------------------------------------------------
(* main() *)

\* the threads of control: the goroutine of main(), the goroutine of
\* watchConfigFile with the callback of its debounce timer, and the
\* goroutine of the runtime that delivers the signals to sigChan
Threads == {"main", "watcher", "signal"}

InitAt == [main |-> "select", watcher |-> "select", signal |-> "idle"]

Init ==
    /\ cfg \in Configs
    /\ os = [p \in Pids |-> IF p = 1 THEN InitProc ELSE Dead]
    /\ events = 0
    /\ CurrentPill = ""
    /\ currentProc = 0
    /\ currentParent = 0
    /\ knownProcs = <<>>
    /\ currentScan = {}
    /\ dbusConn = FALSE
    /\ pc = "start"
    /\ exitCode = -1
    /\ sigChan = 0
    /\ restartChan = 0
    /\ last = NoObs
    /\ first = NoFirst
    /\ at = InitAt
    /\ scans = 0

\* pm.connectToDbus() in main, before the loop
Startup ==
    /\ pc = "start"
    /\ \E k \in {0, 1, maxRetries} :
         LET r == connectToDbus(dbusConn, [Healthy EXCEPT !.connFails = k])
         IN  /\ dbusConn' = r.conn
             /\ events' = events + (IF k = 0 THEN 0 ELSE 1)
             /\ last' = [NoObs EXCEPT !.op = "start", !.attempts = r.attempts,
                                      !.errs = IF r.err THEN {"connect"} ELSE {}]
    /\ pc' = "loop"
    /\ UNCHANGED <<cfg, os, CurrentPill, currentProc, currentParent, knownProcs,
                   currentScan, exitCode, sigChan, restartChan, first, at, scans>>

\* how main() goes on after a step: a panic of the goroutine running main()
\* ends the process with status 2, os.Exit(code) with code, else the loop
Finish(r, code) ==
    IF r.panic THEN pc' = "crashed" /\ exitCode' = 2
    ELSE IF code = -1 THEN pc' = "loop" /\ exitCode' = exitCode
    ELSE pc' = "exited" /\ exitCode' = code

\* a failed listing after which the marks of the last scan and the Reniced
\* flags are dropped
TickListFails_Reset ==
    /\ pc = "loop"
    /\ events < MaxEvents
    /\ events' = events + 1
    /\ knownProcs' = [q \in DOMAIN knownProcs |-> [knownProcs[q] EXCEPT !.Reniced = FALSE]]
    /\ currentScan' = {}
    /\ last' = Obs("scanfail", os, Manager, Manager, Manager)
    /\ UNCHANGED <<cfg, os, CurrentPill, currentProc, currentParent,
                   dbusConn, pc, exitCode, sigChan, restartChan, first, at, scans>>

\* case <-pm.ticker.C, when process.Processes() fails
TickListFails ==
    /\ pc = "loop"
    /\ events < MaxEvents
    /\ events' = events + 1
    /\ last' = Obs("scanfail", os, Manager, Manager, Manager)
    /\ UNCHANGED <<cfg, os, CurrentPill, currentProc, currentParent, knownProcs,
                   currentScan, dbusConn, pc, exitCode, sigChan, restartChan, first, at, scans>>

\* pm.scanProcesses() whose listing succeeds, with at most budget failures
scanProcesses(budget) ==
    \E cc \in Cores(cfg, os, Manager, budget) :
      \E rc \in Decisions(cfg, os, cc[1], budget - cc[2]) :
         /\ Commit(rc[1])
         /\ Finish(rc[1], -1)
         /\ events' = events + cc[2] + rc[2]
         /\ last' = Obs("scan", os, Manager, cc[1], rc[1])

\* pm.eatPill(nil, "default"); pm.Close(); os.Exit(code)
Revert(op, code) ==
    \E rc \in Eats(cfg, os, Manager, 0, "default", MaxEvents - events) :
       /\ Commit(rc[1])
       /\ Finish(rc[1], code)
       /\ events' = events + rc[2]
       /\ last' = Obs(op, os, Manager, Manager, rc[1])

\* case <-pm.ticker.C: pm.scanProcesses()
Tick ==
    /\ pc = "loop"
    /\ scanProcesses(MaxEvents - events)
    /\ UNCHANGED <<cfg, os, sigChan, restartChan, first, at, scans>>

\* case <-sigChan: eatPill(nil, "default"); pm.Close(); os.Exit(0)
HandleSignal ==
    /\ pc = "loop"
    /\ sigChan > 0
    /\ sigChan' = sigChan - 1
    /\ Revert("signal", 0)
    /\ UNCHANGED <<cfg, os, restartChan, first, at, scans>>

\* case <-restartChan: eatPill(nil, "default"); pm.Close(); os.Exit(42)
HandleRestart ==
    /\ pc = "loop"
    /\ restartChan > 0
    /\ restartChan' = restartChan - 1
    /\ Revert("restart", 42)
    /\ UNCHANGED <<cfg, os, sigChan, first, at, scans>>

\* SIGINT/SIGTERM delivered to sigChan (buffer of 1: a second one is dropped)
SignalArrives ==
    /\ pc = "loop"
    /\ events < MaxEvents
    /\ events' = events + 1
    /\ sigChan' = 1
    /\ last' = EnvObs
    /\ UNCHANGED <<cfg, os, CurrentPill, currentProc, currentParent, knownProcs,
                   currentScan, dbusConn, pc, exitCode, restartChan, first, at, scans>>

\* a send on restartChan that queues the request whatever is pending
ConfigChanged_Queue ==
    /\ pc = "loop"
    /\ events < MaxEvents
    /\ events' = events + 1
    /\ restartChan' = restartChan + 1
    /\ last' = [EnvObs EXCEPT !.op = "sent"]
    /\ UNCHANGED <<cfg, os, CurrentPill, currentProc, currentParent, knownProcs,
                   currentScan, dbusConn, pc, exitCode, sigChan, first, at, scans>>

\* the debounce timer of watchConfigFile fires: non-blocking send on
\* restartChan (buffer of 1), the default case taken when it is full
ConfigChanged ==
    /\ pc = "loop"
    /\ events < MaxEvents
    /\ events' = events + 1
    /\ restartChan' = IF restartChan < 1 THEN restartChan + 1 ELSE restartChan
    /\ last' = [EnvObs EXCEPT !.op = IF restartChan < 1 THEN "sent" ELSE "dropped"]
    /\ UNCHANGED <<cfg, os, CurrentPill, currentProc, currentParent, knownProcs,
                   currentScan, dbusConn, pc, exitCode, sigChan, first, at, scans>>

----------------------------------------------------------------------------
(* The host's processes come and go *)

\* a process is started, while fewer than bound events have happened
SpawnWithin(bound) ==
    /\ pc = "loop"
    /\ events < bound
    /\ \E p \in (DOMAIN os) \ {1}, prog \in Programs, pp \in DOMAIN os :
         /\ ~Alive(os, p)
         /\ Alive(os, pp)
         \* the parent of another user's process is never read: it is init
         /\ prog.user # userName => pp = 1
         /\ os' = [os EXCEPT ![p] = [user |-> prog.user, cmd |-> prog.cmd,
                                     name |-> prog.name, ppid |-> pp]]
    /\ events' = events + 1
    /\ last' = EnvObs
    /\ UNCHANGED <<cfg, CurrentPill, currentProc, currentParent, knownProcs, currentScan,
                   dbusConn, pc, exitCode, sigChan, restartChan, first, at, scans>>

Spawn == SpawnWithin(MaxEvents)

\* a process exits, while fewer than bound events have happened; its
\* children are reparented to init
ExitWithin(bound) ==
    /\ pc = "loop"
    /\ events < bound
    /\ \E p \in (DOMAIN os) \ {1} :
         /\ Alive(os, p)
         /\ os' = [q \in DOMAIN os |->
                     IF q = p THEN Dead
                     ELSE IF os[q].ppid = p THEN [os[q] EXCEPT !.ppid = 1]
                     ELSE os[q]]
    /\ events' = events + 1
    /\ last' = EnvObs
    /\ UNCHANGED <<cfg, CurrentPill, currentProc, currentParent, knownProcs, currentScan,
                   dbusConn, pc, exitCode, sigChan, restartChan, first, at, scans>>

Exit == ExitWithin(MaxEvents)

Next ==
    \/ Startup
    \/ TickListFails
    \/ Tick
    \/ HandleSignal
    \/ HandleRestart
    \/ SignalArrives
    \/ ConfigChanged
    \/ Spawn
    \/ Exit

Spec == Init /\ [][Next]_vars

----------------------------------------------------------------------------
(* Vocabulary of the properties *)

\* this step is a call of scanProcesses whose process listing succeeded
ScanStep == last'.op = "scan"

\* the pills that the cached command lines resolve to
AllMatches(c, known) ==
    UNION {MatchingPills(c, known[p].Cmdline) : p \in DOMAIN known}

\* how often call x occurs among calls
RECURSIVE Count(_, _)
Count(calls, x) ==
    IF calls = <<>> THEN 0
    ELSE (IF Head(calls) = x THEN 1 ELSE 0) + Count(Tail(calls), x)

----------------------------------------------------------------------------
(* C1: trigger to profile within one scan *)

\* C1 as stated: when a scan runs while a user-owned process, already seen by
\* the scan before, has a command line that contains a trigger bound to an
\* existing pill P, the current pill is P when that scan returns.
C1_Original ==
    [][(ScanStep /\ pc' = "loop") =>
         \A p \in (DOMAIN knownProcs) \cap (DOMAIN knownProcs') :
           \A t \in DOMAIN cfg.Triggers :
             (/\ os[p].user = userName
              /\ Contains(os[p].cmd, t)
              /\ Contains(knownProcs'[p].Cmdline, t)
              /\ cfg.Triggers[t] \in DOMAIN cfg.Pills)
             => CurrentPill' = cfg.Triggers[t]]_vars

\* C1 amended: a scan that starts with the pill "default" and without a
\* living anchor process, and in which the cached command lines of the
\* processes seen contain triggers of one existing pill P only, applies P
\* (eatPill with the matching process, unless P is "default") and leaves P
\* as the current pill when it returns.
C1_Amended ==
    [][(ScanStep /\ last'.pill0 = "default" /\ ~last'.anchor0) =>
         \A P \in DOMAIN cfg.Pills :
           AllMatches(cfg, knownProcs') = {P} =>
             /\ pc' = "loop" => CurrentPill' = P
             /\ P # "default" =>
                  /\ Len(last'.eats) = 1
                  /\ last'.eats[1][2] = P
                  /\ last'.eats[1][1] \in DOMAIN knownProcs'
                  /\ P \in MatchingPills(cfg, knownProcs'[last'.eats[1][1]].Cmdline)]_vars

C1_Witness ==
    /\ last.op = "scan" /\ last.pill0 = "default" /\ ~last.anchor0
    /\ pc = "loop"
    /\ CurrentPill = "game"
    /\ AllMatches(cfg, knownProcs) = {"game"}
    /\ currentProc \in DOMAIN knownProcs

----------------------------------------------------------------------------
(* C2: the reversion to "default" is not repeated *)

\* C2: a scan that ends without a process justifying a current pill other
\* than "default" invokes eatPill(nil, "default") exactly once and leaves
\* "default" as the current pill; a scan that starts with the pill "default"
\* and sees no command line containing a trigger invokes eatPill not at all
\* and issues no bus call.
C2_RevertOnce ==
    [][ScanStep =>
         /\ (last'.pill0 # "default" /\ ~last'.keep) =>
               /\ last'.eats = <<(<<0, "default">>)>>
               /\ pc' = "loop" => (CurrentPill' = "default" /\ currentProc' = 0)
         /\ (last'.pill0 = "default" /\ AllMatches(cfg, knownProcs') = {}) =>
               /\ last'.eats = <<>>
               /\ last'.calls = <<>>
               /\ CurrentPill' = "default"]_vars

\* the scan after a scan that reverted from a real pill to "default"
C2_Witness ==
    /\ last.op = "scan" /\ last.pill0 = "default"
    /\ last.reverted /\ last.decision = "none"
    /\ AllMatches(cfg, knownProcs) = {}
    /\ last.eats = <<>>

----------------------------------------------------------------------------
(* C3: no priority change under "default" *)

\* C3: a step of main() that starts with the pill "default" or without a
\* pill requests no priority change, also when "default" has a nice key.
C3_NoNiceInDefault ==
    last.pill0 \in {"", "default"} => last.prio = {}

\* a scan under "default", whose pill has a nice key, with the anchor alive
\* and cached
C3_Witness ==
    /\ last.op = "scan" /\ last.pill0 = "default"
    /\ "nice" \in DOMAIN Settings(cfg, "default")
    /\ last.anchor0
    /\ last.proc0 \in DOMAIN knownProcs

----------------------------------------------------------------------------
(* C4: invalid nice values *)

\* C4: a scan under a pill whose nice value is not a number in -20..20
\* requests no priority change and still refreshes the cache and takes its
\* decision; no priority change is ever requested with a value outside
\* -20..20.
C4_InvalidNice ==
    /\ \A x \in last.prio : x[2] \in -20..20
    /\ (last.op = "scan" /\ NiceOf(cfg, last.pill0).invalid) =>
          /\ last.prio = {}
          /\ DOMAIN knownProcs = currentScan
          /\ currentScan \subseteq last.listed
          /\ (last.decision \in {"revert", "switch"}) <=> (Len(last.eats) = 1)

\* a scan under a pill with an invalid nice value, its anchor alive and cached
C4_Witness ==
    /\ last.op = "scan"
    /\ NiceOf(cfg, last.pill0).invalid
    /\ last.anchor0
    /\ last.proc0 \in DOMAIN knownProcs
    /\ last.proc0 = currentProc

----------------------------------------------------------------------------
(* C5: the cache holds what the last scan saw *)

\* C5: after a scan no record is cached for a pid the scan did not see, and
\* a record the scan created holds the command line and user read in that
\* scan, with the adjusted flag false unless that scan reniced the process.
C5_CachePurged ==
    [][ScanStep =>
         /\ DOMAIN knownProcs' \subseteq last'.listed
         /\ DOMAIN knownProcs' \subseteq currentScan'
         /\ \A p \in (DOMAIN knownProcs') \ (DOMAIN knownProcs) :
              /\ knownProcs'[p].Cmdline \in {os[p].cmd, <<>>}
              /\ knownProcs'[p].Username = os[p].user
              /\ knownProcs'[p].Reniced => (\E x \in last'.prio : x[1] = p /\ x[3])]_vars

\* a pid whose record was purged is cached again, with another command line
C5_Witness ==
    \E p \in DOMAIN knownProcs :
      /\ knownProcs[p].Cmdline = os[p].cmd
      /\ \E x \in last.purgedRecs : x[1] = p /\ x[2] # knownProcs[p].Cmdline /\ x[2] # <<>>

----------------------------------------------------------------------------
(* C6: eatPill applied twice in succession.  SpecEat starts from a manager *)
(* state between two scans, on a host that does not change, and calls     *)
(* eatPill(p, X) twice against the same behaviour of the bus.              *)

\* the process tables of the user's programs, pids in use from 2 upwards
\* without a gap, the parent of every process an older process alive
HostTables ==
    LET recs == {Dead} \cup {[user |-> g.user, cmd |-> g.cmd, name |-> g.name, ppid |-> pp] :
                               g \in {x \in Programs : x.user = userName}, pp \in Pids}
    IN  {o \in [Pids -> recs \cup {InitProc}] :
           /\ o[1] = InitProc
           /\ \A p \in Pids \ {1} :
                /\ o[p] # InitProc
                /\ o[p] # Dead => (o[p].ppid < p /\ o[o[p].ppid] # Dead /\ o[p - 1] # Dead)}

\* the records of the user's processes, as a scan caches them
CacheOf(o, reniced) ==
    [p \in {q \in DOMAIN o : Alive(o, q) /\ o[q].user = userName} |->
        ProcessInfo(o[p].name, o[p].cmd, o[p].user, p \in reniced)]

InitEat ==
    /\ cfg \in Configs
    /\ os \in HostTables
    /\ events = 0
    /\ dbusConn \in BOOLEAN
    /\ \/ /\ CurrentPill = "default" /\ currentProc = 0 /\ currentParent = 0
          /\ knownProcs = CacheOf(os, {})
       \/ \E a \in DOMAIN CacheOf(os, {}) :
            /\ CurrentPill \in MatchingPills(cfg, os[a].cmd) \cap ((DOMAIN cfg.Pills) \ {"default"})
            /\ currentProc = a
            /\ currentParent = getValidParent(os, a, FALSE)
            /\ \E r \in (IF NiceOf(cfg, CurrentPill).isNice THEN {{}, {a}} ELSE {{}}) :
                 knownProcs = CacheOf(os, r)
    /\ currentScan = DOMAIN knownProcs
    /\ pc = "eat0"
    /\ exitCode = -1
    /\ sigChan = 0
    /\ restartChan = 0
    /\ last = NoObs
    /\ first = NoFirst
    /\ at = InitAt
    /\ scans = 0

\* eatPill(p, X)
EatFirst ==
    /\ pc = "eat0"
    /\ \E p \in {0} \cup DOMAIN knownProcs, X \in DOMAIN cfg.Pills,
          bus \in BusBehaviours, parErr \in BOOLEAN :
         \E r \in {eatPill(cfg, os, Manager, p, X, bus, parErr)},
            h \in {eatPill(cfg, os, Manager, p, X,
                           [Healthy EXCEPT !.scxFirst = bus.scxFirst], FALSE)} :
             /\ (bus.fault # "none" \/ parErr) => r # h
             /\ Commit(r)
             /\ pc' = IF r.panic THEN "crashed" ELSE "eat1"
             /\ exitCode' = IF r.panic THEN 2 ELSE exitCode
             /\ last' = Obs("eat", os, Manager, Manager, r)
             /\ first' = [done |-> TRUE, p |-> p, pillName |-> X, bus |-> bus, parErr |-> parErr,
                          calls |-> r.calls, pill |-> r.pill, proc |-> r.proc,
                          parent |-> r.parent, known |-> r.known]
    /\ UNCHANGED <<cfg, os, events, sigChan, restartChan, at, scans>>

\* eatPill(p, X) again
EatSecond ==
    /\ pc = "eat1"
    /\ \E r \in {eatPill(cfg, os, Manager, first.p, first.pillName, first.bus, first.parErr)} :
           /\ Commit(r)
           /\ pc' = IF r.panic THEN "crashed" ELSE "eat2"
           /\ exitCode' = IF r.panic THEN 2 ELSE exitCode
           /\ last' = Obs("eat", os, Manager, Manager, r)
    /\ UNCHANGED <<cfg, os, events, sigChan, restartChan, first, at, scans>>

NextEat ==
    \/ EatFirst
    \/ EatSecond

SpecEat == InitEat /\ [][NextEat]_vars

\* C6: the second of two eatPill(p, X) in succession issues the switch/stop
\* calls of the first and leaves the current pill, the anchor, the valid
\* parent and the cache as the first left them, every adjusted flag false.
C6_EatTwice ==
    pc = "eat2" =>
      /\ ControlCalls(last.calls) = ControlCalls(first.calls)
      /\ CurrentPill = first.pill /\ CurrentPill = first.pillName
      /\ currentProc = first.proc
      /\ currentParent = first.parent
      /\ knownProcs = first.known
      /\ \A q \in DOMAIN knownProcs : ~knownProcs[q].Reniced

\* both applications, with a process, two switch calls each time and the
\* connection made by the first one
C6_Witness ==
    /\ pc = "eat2"
    /\ first.p # 0
    /\ Len(ControlCalls(last.calls)) = 2
    /\ first.bus.fault = "conn1"
    /\ last.attempts = 0
    /\ DOMAIN knownProcs # {}

----------------------------------------------------------------------------
(* C7: the scenario of the switch to a matched pill *)

\* the pill has a scheduler with a mode, and a tuning profile
HasScxModeAndTuned(c, P) ==
    /\ P \in DOMAIN c.Pills
    /\ "scx" \in DOMAIN c.Pills[P] /\ "tuned" \in DOMAIN c.Pills[P]
    /\ Len(Split(c.Pills[P]["scx"])) = 2

\* C7 as stated: a scan that starts with the pill "default", caches a new
\* process whose command line contains a trigger bound to a pill P with scx
\* "<name> <mode>" and tuned "<profile>", and returns, calls SwitchScheduler(<name>, <mode>)
\* and switch_profile(<profile>) once each and makes P the current pill with
\* that process as anchor.
C7_Original ==
    [][(ScanStep /\ last'.pill0 = "default" /\ pc' = "loop") =>
         \A p \in last'.cached : \A P \in MatchingPills(cfg, knownProcs'[p].Cmdline) :
           HasScxModeAndTuned(cfg, P) =>
             LET args == Split(cfg.Pills[P]["scx"])
             IN  /\ Count(last'.calls, Call("SwitchScheduler", args[1], Atoi(args[2]).val)) = 1
                 /\ Count(last'.calls, Call("switch_profile", cfg.Pills[P]["tuned"], 0)) = 1
                 /\ CurrentPill' = P
                 /\ currentProc' = p]_vars

\* C7 amended: a scan that starts with the pill "default" and without a
\* living anchor, and in which the cached command lines contain triggers of
\* one pill P only, P not "default" and with scx "<name> <mode>" and tuned
\* "<profile>", invokes eatPill once, with P and a process matching P.  If
\* the connection is there, both capability lists arrive and contain <name>
\* and <profile>, it calls SwitchScheduler(<name>, m) once, m being <mode>
\* when that is an integer in 0..4 and 0 otherwise, and
\* switch_profile(<profile>) once, and it returns with P as the current
\* pill and that process as anchor.
C7_Amended ==
    [][(ScanStep /\ last'.pill0 = "default" /\ ~last'.anchor0) =>
         \A P \in (DOMAIN cfg.Pills) \ {"default"} :
           (AllMatches(cfg, knownProcs') = {P} /\ HasScxModeAndTuned(cfg, P)) =>
             LET args == Split(cfg.Pills[P]["scx"])
                 mode == Atoi(args[2])
                 m    == IF mode.err \/ mode.val < 0 \/ mode.val > 4 THEN 0 ELSE mode.val
             IN  /\ Len(last'.eats) = 1
                 /\ last'.eats[1][2] = P
                 /\ last'.eats[1][1] \in DOMAIN knownProcs'
                 /\ P \in MatchingPills(cfg, knownProcs'[last'.eats[1][1]].Cmdline)
                 /\ (~last'.panic /\ last'.errs \cap {"connect", "SupportedSchedulers",
                                        "invalid scheduler", "invalid profile"} = {}) =>
                      /\ Count(last'.calls, Call("SwitchScheduler", args[1], m)) = 1
                      /\ Len(ControlCalls(last'.calls)) = 2
                      /\ Count(last'.calls, Call("switch_profile", cfg.Pills[P]["tuned"], 0)) = 1
                      /\ CurrentPill' = P
                      /\ currentProc' = last'.eats[1][1]]_vars

\* the scan of the scenario: "default", a process matching "game" appears,
\* SwitchScheduler("l", 1) and switch_profile("G") are called
C7_Witness ==
    /\ last.op = "scan" /\ last.pill0 = "default" /\ ~last.anchor0
    /\ CurrentPill = "game"
    /\ currentProc \in last.cached
    /\ Count(last.calls, Call("SwitchScheduler", <<"l">>, 1)) = 1
    /\ Count(last.calls, Call("switch_profile", <<"G">>, 0)) = 1
    /\ last.errs = {}

----------------------------------------------------------------------------
(* C8, C9, C10: shutdown, restart and failures of the control bridge *)

\* C8 as stated: the signal branch and the restart branch of main() leave
\* the pill "default" without anchor and valid parent, and end the process
\* with status 0 and 42.
C8_ShutdownReverts ==
    /\ last.op = "signal" =>
         (pc = "exited" /\ exitCode = 0
          /\ CurrentPill = "default" /\ currentProc = 0 /\ currentParent = 0)
    /\ last.op = "restart" =>
         (pc = "exited" /\ exitCode = 42
          /\ CurrentPill = "default" /\ currentProc = 0 /\ currentParent = 0)

\* C9 as stated: no failure of an external control operation ends the
\* process: main() is never ended by a panic.
C9_NeverFatal ==
    pc # "crashed" /\ ~last.panic

\* C10 as stated: when a switch/stop call fails, the error is reported only
\* after the connection was dropped and the call was issued again.
C10_RetryOnFailure ==
    \A e \in last.errs \cap {"StopScheduler", "SwitchScheduler", "switch_profile"} :
      /\ ~dbusConn \/ last.attempts > 0
      /\ \E i, j \in 1..Len(last.calls) :
           i # j /\ last.calls[i].op = e /\ last.calls[j].op = e

----------------------------------------------------------------------------
(* C11: switch calls only for advertised names (checked under SpecEat,     *)
(* where first.bus is the behaviour of the bus during the operation)       *)

\* C11: every SwitchScheduler and switch_profile call of an eatPill follows
\* the query of the advertised list in the same bridge call and names an
\* element of that list; when the scheduler or the profile asked for is not
\* in the list, no such call is issued and the bridge call returns an error.
C11_SwitchOnlyListed ==
    first.done =>
      /\ \A i \in 1..Len(last.calls) :
           /\ last.calls[i].op = "SwitchScheduler" =>
                 /\ last.calls[i].name \in first.bus.supported
                 /\ i > 1 /\ last.calls[i - 1].op = "SupportedSchedulers"
           /\ last.calls[i].op = "switch_profile" =>
                 /\ last.calls[i].name \in first.bus.profiles
                 /\ i > 1 /\ last.calls[i - 1].op = "profiles"
      /\ \A key \in {"scx", "tuned"} \cap DOMAIN Settings(cfg, first.pillName) :
           LET value  == Settings(cfg, first.pillName)[key]
               listed == IF key = "scx" THEN first.bus.supported ELSE first.bus.profiles
               op     == IF key = "scx" THEN "SwitchScheduler" ELSE "switch_profile"
           IN  (value # none /\ Split(value)[1] \notin listed) =>
                 /\ \A i \in 1..Len(last.calls) : last.calls[i].op # op
                 /\ ~last.panic =>
                      last.errs \cap {"connect", "SupportedSchedulers",
                                      "invalid scheduler", "invalid profile"} # {}

\* eatPill of "game" while the loader advertises no scheduler "l": the
\* profile is switched, the scheduler is not, and the error is returned
C11_Witness ==
    /\ pc = "eat1"
    /\ first.pillName = "game" /\ first.bus.fault = "scxList"
    /\ "invalid scheduler" \in last.errs
    /\ Count(last.calls, Call("switch_profile", <<"G">>, 0)) = 1
    /\ \A i \in 1..Len(last.calls) : last.calls[i].op # "SwitchScheduler"

----------------------------------------------------------------------------
(* C12: triggers bound to a pill that the catalog does not have *)

\* the cached processes whose command line contains triggers, all of them
\* bound to pills that are not in the catalog
Ghosts(c, known) ==
    {p \in DOMAIN known : /\ MatchingPills(c, known[p].Cmdline) # {}
                          /\ MatchingPills(c, known[p].Cmdline) \cap DOMAIN c.Pills = {}}

\* C12: the current pill is always "", "default" or a pill of the catalog;
\* no scan calls eatPill with a pill outside the catalog or with a process
\* that matches only triggers of pills outside the catalog; and a scan under
\* "default" in which no process seen matches a pill of the catalog calls
\* eatPill not at all, leaves pill, anchor and valid parent as they were and
\* returns to the loop.
C12_UnknownPillIgnored ==
    /\ [](CurrentPill \in {"", "default"} \cup DOMAIN cfg.Pills)
    /\ [][ScanStep =>
            /\ \A i \in 1..Len(last'.eats) :
                 /\ last'.eats[i][2] \in {"default"} \cup DOMAIN cfg.Pills
                 /\ last'.eats[i][1] \notin Ghosts(cfg, knownProcs')
            /\ (/\ last'.pill0 = "default"
                /\ AllMatches(cfg, knownProcs') \cap DOMAIN cfg.Pills = {}) =>
                 /\ last'.eats = <<>>
                 /\ pc' = "loop"
                 /\ CurrentPill' = last'.pill0
                 /\ currentProc' = last'.proc0
                 /\ currentParent' = last'.parent0]_vars

\* a scan under "default" that saw a process matching the trigger of the
\* missing pill "ghost" only, and did nothing
C12_Witness ==
    /\ last.op = "scan" /\ last.pill0 = "default" /\ pc = "loop"
    /\ Ghosts(cfg, knownProcs) \cap last.listed # {}
    /\ AllMatches(cfg, knownProcs) \cap DOMAIN cfg.Pills = {}
    /\ last.eats = <<>> /\ CurrentPill = "default"

----------------------------------------------------------------------------
(* C13: no Reniced flag survives a change of the pill *)

\* C13: in the state after any step that changes the current pill, every
\* record of the process cache has its Reniced flag false.
C13_FlagsCleared ==
    [][CurrentPill' # CurrentPill =>
         \A q \in DOMAIN knownProcs' : ~knownProcs'[q].Reniced]_vars

\* a scan changed the pill while a record that stays cached was flagged
C13_Witness ==
    /\ last.op = "scan" /\ pc = "loop"
    /\ last.pill0 \notin {"", CurrentPill}
    /\ last.flagged0 # {}
    /\ \A q \in last.flagged0 : ~knownProcs[q].Reniced

----------------------------------------------------------------------------
(* C14: a pill is current after the first scan *)

\* C14 as stated: when a call of scanProcesses has returned, the first one
\* included and whatever happened in it, the current pill is not "".
C14_Original ==
    [][(last'.op \in {"scan", "scanfail"} /\ pc' = "loop") => CurrentPill' # ""]_vars

\* C14 amended: when a call of scanProcesses whose listing of the processes
\* succeeded has returned, the current pill is "default" or a pill of the
\* catalog, and a current pill that is not "" never becomes "" again; a
\* scan whose listing fails leaves the pill as it was.
C14_Amended ==
    [][/\ (ScanStep /\ pc' = "loop") => CurrentPill' \in {"default"} \cup DOMAIN cfg.Pills
       /\ CurrentPill # "" => CurrentPill' # ""
       /\ last'.op = "scanfail" => CurrentPill' = CurrentPill]_vars

\* the first scan that lists the processes has returned: the pill was ""
\* and is "default"
C14_Witness ==
    /\ last.op = "scan" /\ pc = "loop"
    /\ last.pill0 = "" /\ last.listed # {}
    /\ last.eats = <<<<0, "default">>>>
    /\ CurrentPill = "default"

----------------------------------------------------------------------------
(* C15: restartChan *)

\* C15: restartChan never holds more than one request; a send finds it empty
\* and fills it, or finds it full, returns all the same and leaves the one
\* request pending; the main loop that receives the request reverts and
\* leaves the loop, so that one restart is processed however many sends
\* there were.
C15_OnePending ==
    /\ [](restartChan \in {0, 1})
    /\ [][/\ restartChan' > restartChan => restartChan = 0
          /\ last'.op = "sent" => (restartChan = 0 /\ restartChan' = 1)
          /\ last'.op = "dropped" => (restartChan = 1 /\ restartChan' = 1)
          /\ last'.op = "restart" =>
               (restartChan = 1 /\ restartChan' = 0 /\ pc' # "loop")]_vars

\* a request was sent while one was pending: it is dropped, one is pending
C15_Witness ==
    last.op = "dropped" /\ restartChan = 1 /\ pc = "loop"

----------------------------------------------------------------------------
(* C18: processes of other users *)

\* C18: after a scan, every process that the scan passed to eatPill, made
\* the anchor or passed to Setpriority is owned by the invoking user.
C18_OnlyOwnProcesses ==
    last.op = "scan" =>
      /\ \A i \in 1..Len(last.eats) :
           last.eats[i][1] # 0 => os[last.eats[i][1]].user = userName
      /\ (currentProc # last.proc0 /\ currentProc # 0) => os[currentProc].user = userName
      /\ \A x \in last.prio : os[x[1]].user = userName

----------------------------------------------------------------------------
(* C19: the reversion comes first *)

----------------------------------------------------------------------------
(* C20: which of several matching processes decides *)

\* the cached processes whose command line matches a trigger of a pill of
\* the catalog other than pill
Matching(c, known, pill) ==
    {p \in DOMAIN known : MatchingPills(c, known[p].Cmdline) \cap (DOMAIN c.Pills \ {pill}) # {}}

\* C20: a scan that switches the pill takes the pill that the first process,
\* in the order of the listing, matching a pill other than the current one
\* resolves to, and makes that process the anchor.
C20_FirstMatchWins ==
    [][(/\ ScanStep /\ pc' = "loop"
        /\ Len(last'.eats) = 1 /\ last'.eats[1][1] # 0) =>
         \E f \in Matching(cfg, knownProcs', last'.pill0) :
            /\ \A q \in Matching(cfg, knownProcs', last'.pill0) : f <= q
            /\ currentProc' = f
            /\ CurrentPill' \in MatchingPills(cfg, knownProcs'[f].Cmdline)]_vars

----------------------------------------------------------------------------
(* The threads of control of main.go: SpecLoop takes the steps of the loop *)
(* of main() apart into the receive of a select case and the call made in  *)
(* that case, so that the steps of the other goroutines interleave         *)

\* case <-pm.ticker.C taken: main() is about to call pm.scanProcesses()
LoopTick ==
    /\ pc = "loop" /\ at.main = "select"
    /\ at' = [at EXCEPT !.main = "scanProcesses"]
    /\ UNCHANGED <<cfg, os, events, CurrentPill, currentProc, currentParent, knownProcs,
                   currentScan, dbusConn, pc, exitCode, sigChan, restartChan, last,
                   first, scans>>

\* pm.scanProcesses() runs and returns to the select
LoopScan ==
    /\ pc = "loop" /\ at.main = "scanProcesses"
    /\ scanProcesses(MaxEvents - events)
    /\ at' = [at EXCEPT !.main = "select"]
    /\ UNCHANGED <<cfg, os, sigChan, restartChan, first, scans>>

\* the signal is received by a goroutine of its own, as main() did before
\* the select loop was introduced
LoopSignal_Goroutine ==
    /\ pc = "loop" /\ at.signal = "idle"
    /\ sigChan > 0
    /\ sigChan' = sigChan - 1
    /\ at' = [at EXCEPT !.signal = "shutdown"]
    /\ UNCHANGED <<cfg, os, events, CurrentPill, currentProc, currentParent, knownProcs,
                   currentScan, dbusConn, pc, exitCode, restartChan, last, first, scans>>

\* case <-sigChan taken by main()
LoopSignal ==
    /\ pc = "loop" /\ at.main = "select"
    /\ sigChan > 0
    /\ sigChan' = sigChan - 1
    /\ at' = [at EXCEPT !.main = "shutdown"]
    /\ UNCHANGED <<cfg, os, events, CurrentPill, currentProc, currentParent, knownProcs,
                   currentScan, dbusConn, pc, exitCode, restartChan, last, first, scans>>

\* the shutdown reversion: pm.eatPill(nil, "default"); pm.Close(); os.Exit(0)
LoopShutdown ==
    /\ pc = "loop"
    /\ \E t \in Threads :
         /\ at[t] = "shutdown"
         /\ at' = [at EXCEPT ![t] = "exited"]
    /\ Revert("signal", 0)
    /\ UNCHANGED <<cfg, os, sigChan, restartChan, first, scans>>

\* case <-restartChan taken by main()
LoopRestartRequest ==
    /\ pc = "loop" /\ at.main = "select"
    /\ restartChan > 0
    /\ restartChan' = restartChan - 1
    /\ at' = [at EXCEPT !.main = "restart"]
    /\ UNCHANGED <<cfg, os, events, CurrentPill, currentProc, currentParent, knownProcs,
                   currentScan, dbusConn, pc, exitCode, sigChan, last, first, scans>>

\* the restart reversion: pm.eatPill(nil, "default"); pm.Close(); os.Exit(42)
LoopRestart ==
    /\ pc = "loop" /\ at.main = "restart"
    /\ Revert("restart", 42)
    /\ at' = [at EXCEPT !.main = "exited"]
    /\ UNCHANGED <<cfg, os, sigChan, restartChan, first, scans>>

\* watchConfigFile receives a Write or Create event: the debounce timer is
\* stopped if there is one, and started
FileEvent ==
    /\ pc = "loop"
    /\ events < MaxEvents
    /\ events' = events + 1
    /\ at' = [at EXCEPT !.watcher = "debounce"]
    /\ last' = EnvObs
    /\ UNCHANGED <<cfg, os, CurrentPill, currentProc, currentParent, knownProcs,
                   currentScan, dbusConn, pc, exitCode, sigChan, restartChan, first, scans>>

\* the debounce timer fires: its callback sends on restartChan, or drops
\* the request when the buffer is full
TimerFires ==
    /\ pc = "loop" /\ at.watcher = "debounce"
    /\ restartChan' = IF restartChan < 1 THEN restartChan + 1 ELSE restartChan
    /\ at' = [at EXCEPT !.watcher = "select"]
    /\ last' = [EnvObs EXCEPT !.op = IF restartChan < 1 THEN "sent" ELSE "dropped"]
    /\ UNCHANGED <<cfg, os, events, CurrentPill, currentProc, currentParent, knownProcs,
                   currentScan, dbusConn, pc, exitCode, sigChan, first, scans>>

NextLoop ==
    \/ Startup
    \/ LoopTick
    \/ LoopScan
    \/ LoopSignal
    \/ LoopShutdown
    \/ LoopRestartRequest
    \/ LoopRestart
    \/ SignalArrives
    \/ FileEvent
    \/ TimerFires
    \/ Spawn

SpecLoop == Init /\ [][NextLoop]_vars

\* the threads that are executing scanProcesses or one of the reversions
Executing == {t \in Threads : at[t] \in {"scanProcesses", "shutdown", "restart"}}

\* C16: at most one of scanProcesses, the shutdown reversion and the
\* restart reversion is being executed at any time, and the thread that
\* executes it is the goroutine of main().
C16_OneAtATime ==
    Cardinality(Executing) <= 1 /\ Executing \subseteq {"main"}

\* a signal and a restart request have arrived while a scan is in
\* progress: both wait in their channels
C16_Witness ==
    /\ pc = "loop" /\ at.main = "scanProcesses"
    /\ sigChan = 1 /\ restartChan = 1
    /\ Executing = {"main"}

----------------------------------------------------------------------------
(* The propagation of the nice value down the process tree: SpecNice runs  *)
(* scans without failures on a process tree that does not change           *)

\* scans are counted up to MaxScans
MaxScans == MaxTree + 1

\* the ancestor of q that is k steps up (0 above init)
RECURSIVE Up(_, _, _)
Up(o, q, k) ==
    IF k = 0 \/ q \notin DOMAIN o THEN q ELSE Up(o, o[q].ppid, k - 1)

\* the process tables of pids 1..MaxTree: init, and programs whose parents
\* lead up to init
Trees ==
    LET recs == {[user |-> g.user, cmd |-> g.cmd, name |-> g.name, ppid |-> pp] :
                   g \in Programs, pp \in 1..MaxTree}
    IN  {[p \in 1..MaxTree |-> IF p = 1 THEN InitProc ELSE f[p]] :
           f \in {h \in [2..MaxTree -> recs] :
                    \A p \in 2..MaxTree : Up(h, h[p].ppid, MaxTree) \in {0, 1}}}

\* the configuration is the one that has a pill with a valid nice value
InitNice ==
    /\ cfg = CfgMain
    /\ os \in Trees
    /\ events = 0
    /\ CurrentPill = ""
    /\ currentProc = 0
    /\ currentParent = 0
    /\ knownProcs = <<>>
    /\ currentScan = {}
    /\ dbusConn = FALSE
    /\ pc = "start"
    /\ exitCode = -1
    /\ sigChan = 0
    /\ restartChan = 0
    /\ last = NoObs
    /\ first = NoFirst
    /\ at = InitAt
    /\ scans = 0

\* case <-pm.ticker.C: pm.scanProcesses(), no call failing; scans counts
\* the scans since the scan that took the current pill
NiceScan ==
    /\ pc = "loop"
    /\ scans < MaxScans
    /\ scanProcesses(0)
    /\ scans' = IF CurrentPill' # CurrentPill THEN 0 ELSE scans + 1
    /\ UNCHANGED <<cfg, os, sigChan, restartChan, first, at>>

NextNice ==
    \/ Startup
    \/ NiceScan

SpecNice == InitNice /\ [][NextNice]_vars

\* q is d steps below the anchor
Below(q, d) == d > 0 /\ Up(os, q, d) = currentProc /\ \A j \in 1..(d - 1) : Up(os, q, j) # currentProc

\* the processes between q and its ancestor d steps up are owned by the user
OwnChain(q, d) == \A j \in 1..(d - 1) : os[Up(os, q, j)].user = userName

Adjusted(q) == q \in DOMAIN knownProcs /\ knownProcs[q].Reniced

\* a pill other than "default" with a valid nice value is current and its
\* anchor is running
NiceInForce ==
    /\ pc = "loop"
    /\ CurrentPill # "default" /\ NiceOf(cfg, CurrentPill).isNice
    /\ Alive(os, currentProc)

----------------------------------------------------------------------------
(* Processes that come and go around a pill with a nice value: SpecChurn   *)
(* runs scans without failures on pids 1..MaxTree, with up to MaxChurn     *)
(* processes started or gone                                               *)

InitChurn ==
    /\ cfg = CfgMain
    /\ os = [p \in 1..MaxTree |-> IF p = 1 THEN InitProc ELSE Dead]
    /\ events = 0
    /\ CurrentPill = ""
    /\ currentProc = 0
    /\ currentParent = 0
    /\ knownProcs = <<>>
    /\ currentScan = {}
    /\ dbusConn = FALSE
    /\ pc = "start"
    /\ exitCode = -1
    /\ sigChan = 0
    /\ restartChan = 0
    /\ last = NoObs
    /\ first = NoFirst
    /\ at = InitAt
    /\ scans = 0

\* case <-pm.ticker.C: pm.scanProcesses(), no call failing
ChurnScan ==
    /\ pc = "loop"
    /\ scanProcesses(0)
    /\ UNCHANGED <<cfg, os, sigChan, restartChan, first, at, scans>>

ChurnSpawn == SpawnWithin(MaxChurn)

ChurnExit == ExitWithin(MaxChurn)

NextChurn ==
    \/ Startup
    \/ ChurnScan
    \/ ChurnSpawn
    \/ ChurnExit

SpecChurn == InitChurn /\ [][NextChurn]_vars

\* the scan step kept the pill for a process that is not the stored anchor
Reanchors ==
    /\ ScanStep
    /\ last'.keep /\ last'.trig # last'.proc0
    /\ last'.newPill \in {"", last'.pill0}

\* the processes whose priority the scan of the last step has set
Reniced(obs) == {x[1] : x \in {y \in obs.prio : y[3]}}

\* C21 as stated: a scan that keeps the pill for a process other than the
\* stored anchor calls neither eatPill nor the bus, leaves the pill, makes
\* that process the anchor with its valid parent, and leaves the Reniced
\* flag of every cached record as it was before the scan.
C21_Original ==
    [][Reanchors =>
         /\ last'.eats = <<>> /\ last'.calls = <<>>
         /\ CurrentPill' = last'.pill0
         /\ currentProc' = last'.trig
         /\ currentParent' = getValidParent(os, last'.trig, FALSE)
         /\ \A q \in DOMAIN knownProcs' :
              knownProcs'[q].Reniced <=> q \in last'.flagged0]_vars

\* C21 amended: such a scan calls neither eatPill nor the bus, leaves the
\* pill, makes that process the anchor with its valid parent, and clears
\* no Reniced flag: the flags set after the scan are those set before it
\* and those of the processes that the loop of the scan has reniced.
C21_Amended ==
    [][Reanchors =>
         /\ last'.eats = <<>> /\ last'.calls = <<>>
         /\ CurrentPill' = last'.pill0
         /\ currentProc' = last'.trig
         /\ currentParent' = getValidParent(os, last'.trig, FALSE)
         /\ \A q \in DOMAIN knownProcs' :
              knownProcs'[q].Reniced <=> q \in last'.flagged0 \cup Reniced(last')]_vars

\* the anchor is gone, a flagged process of the same pill takes its place
\* and keeps its flag, and a new child of it is reniced in the same scan
C21_Witness ==
    /\ last.op = "scan" /\ pc = "loop"
    /\ last.keep /\ last.trig # last.proc0 /\ ~last.anchor0
    /\ currentProc = last.trig /\ CurrentPill = last.pill0
    /\ last.flagged0 # {} /\ Reniced(last) # {}
    /\ \A q \in last.flagged0 \cup Reniced(last) : knownProcs[q].Reniced

----------------------------------------------------------------------------
(* C22: one decision per scan *)

\* C22: a scan calls eatPill at most once.  When it does and returns, pill
\* and anchor are those of the call and nothing replaces the anchor
\* afterwards; when it does not, the pill stays, and anchor and valid
\* parent change only if the pill was kept for a process other than the
\* stored anchor.
C22_OneDecision ==
    [][ScanStep =>
         /\ Len(last'.eats) <= 1
         /\ (Len(last'.eats) = 1 /\ pc' = "loop") =>
              /\ CurrentPill' = last'.eats[1][2]
              /\ currentProc' = last'.eats[1][1]
              /\ last'.eats[1][1] = 0 => (last'.eats[1][2] = "default" /\ ~last'.keep)
              /\ last'.eats[1][1] # 0 => last'.eats[1][2] = last'.newPill
         /\ last'.eats = <<>> =>
              /\ CurrentPill' = last'.pill0
              /\ last'.calls = <<>>
              /\ (currentProc' # last'.proc0 \/ currentParent' # last'.parent0) =>
                   (last'.keep /\ currentProc' = last'.trig /\ last'.trig # last'.proc0)]_vars

\* a scan in which a pill to switch to was found and the current pill was
\* kept for a process other than the stored anchor: eatPill is called, once
C22_Witness ==
    /\ last.op = "scan" /\ pc = "loop"
    /\ last.keep /\ last.trig # last.proc0
    /\ last.newPill \notin {"", last.pill0}
    /\ Len(last.eats) = 1
    /\ CurrentPill = last.newPill /\ currentProc = last.trig

----------------------------------------------------------------------------
(* C23: the valid parent *)

\* C23: when a scan has made p the anchor, by eatPill(p, X) or by
\* replacing the anchor, the valid parent is the pid of the parent of p
\* when the parent is running and its name is not in invalidParents, and
\* the pid of p otherwise.
C23_ValidParent ==
    [][(/\ ScanStep /\ pc' = "loop"
        /\ currentProc' # 0
        /\ (last'.eats # <<>> \/ currentProc' # last'.proc0)) =>
         LET p    == currentProc'
             ppid == os[p].ppid
         IN  /\ currentParent' \in {p, ppid}
             /\ currentParent' = ppid => (Alive(os, ppid) /\ os[ppid].name \notin invalidParents)
             /\ (~Alive(os, ppid) \/ os[ppid].name \in invalidParents) => currentParent' = p]_vars

----------------------------------------------------------------------------
(* C24: who is reniced *)

\* C24: every process that a scan passes to Setpriority is, when it is
\* checked, the anchor, or a child of the valid parent, or a child of a
\* process whose cached record is flagged Reniced (before the scan, or
\* earlier in the loop of the same scan); and a flag is set after the scan
\* only if it was set before or Setpriority has succeeded in this scan.
C24_OnlyEligible ==
    [][ScanStep =>
         /\ \A x \in last'.prio :
              \/ x[1] = last'.proc0
              \/ os[x[1]].ppid = last'.parent0
              \/ os[x[1]].ppid \in last'.flagged0
              \/ os[x[1]].ppid \in Reniced(last') /\ os[x[1]].ppid < x[1]
         /\ \A q \in DOMAIN knownProcs' :
              knownProcs'[q].Reniced => q \in last'.flagged0 \cup Reniced(last')]_vars

\* a scan has reniced a process and has left alone another cached process
\* of the user, which is not eligible
C24_Witness ==
    /\ last.op = "scan" /\ pc = "loop" /\ last.eats = <<>>
    /\ Reniced(last) # {}
    /\ \E q \in DOMAIN knownProcs :
         /\ q \in last.listed /\ ~knownProcs[q].Reniced
         /\ \A x \in last.prio : x[1] # q
         /\ q # last.proc0 /\ os[q].ppid # last.parent0
         /\ os[q].ppid \notin last.flagged0 \cup Reniced(last)

----------------------------------------------------------------------------
(* C25: a priority change that fails *)

\* q is cached and not flagged, it and its parent are running, and it is the
\* anchor, a child of the valid parent or a child of a flagged process
Eligible(q) ==
    /\ q \in DOMAIN knownProcs /\ ~knownProcs[q].Reniced
    /\ Alive(os, q) /\ Alive(os, os[q].ppid)
    /\ (q = currentProc \/ os[q].ppid = currentParent \/ Adjusted(os[q].ppid))

\* C25: a scan passes a process to Setpriority at most once; when the call
\* fails, the record of the process is as it was, its flag false; a flag is
\* true after the scan only if it was before or the call has succeeded;
\* and a scan in which no call fails, under a pill with a valid nice value,
\* renices every process that is eligible when the scan starts, those
\* whose change failed in an earlier scan included.
C25_FailedRenice ==
    [][ScanStep =>
         /\ \A x, y \in last'.prio : x[1] = y[1] => x = y
         /\ \A x \in last'.prio :
              ~x[3] => /\ x[1] \in DOMAIN knownProcs'
                       /\ ~knownProcs'[x[1]].Reniced
                       /\ x[1] \in DOMAIN knownProcs => knownProcs'[x[1]] = knownProcs[x[1]]
         /\ \A q \in DOMAIN knownProcs' :
              (knownProcs'[q].Reniced /\ q \notin last'.flagged0) => q \in Reniced(last')
         /\ (events' = events /\ NiceOf(cfg, CurrentPill).isNice) =>
              \A q \in DOMAIN os : Eligible(q) => q \in Reniced(last')]_vars

\* Setpriority has failed for a process in the scan: it is not flagged and
\* it is eligible for the next scan
C25_Witness ==
    /\ last.op = "scan" /\ pc = "loop" /\ last.eats = <<>>
    /\ NiceOf(cfg, CurrentPill).isNice
    /\ \E x \in last.prio : ~x[3] /\ Eligible(x[1])

----------------------------------------------------------------------------
(* C26: connectToDbus *)

\* the bus when the first k calls of ConnectSystemBus fail
FailingFirst(k) == [Healthy EXCEPT !.connFails = k]

\* the steps of main() that may call connectToDbus
Connecting == {"start", "scan", "signal", "restart"}

\* C26: connectToDbus with a connection held calls ConnectSystemBus not once
\* and returns nil; without one it calls ConnectSystemBus until a call
\* succeeds, at most maxRetries = 3 times, and returns an error exactly
\* when the connection is still nil after the third call.  In main():
\* a step that starts with a connection makes no attempt and reports no
\* connection error, and a step that starts without one ends with the
\* connection after at most 3 attempts or reports the connection error.
C26_Connect ==
    /\ [](\A k \in 0..(maxRetries + 1) :
            LET held == connectToDbus(TRUE, FailingFirst(k))
                fresh == connectToDbus(FALSE, FailingFirst(k))
            IN  /\ held.attempts = 0 /\ held.conn /\ ~held.err
                /\ fresh.attempts = (IF k < maxRetries THEN k + 1 ELSE maxRetries)
                /\ fresh.conn <=> k < maxRetries
                /\ fresh.err <=> ~fresh.conn)
    /\ [][last'.op \in Connecting =>
            /\ dbusConn =>
                 (last'.attempts = 0 /\ dbusConn' /\ "connect" \notin last'.errs)
            /\ (~dbusConn /\ last'.attempts > 0) =>
                 /\ "connect" \in last'.errs <=> ~dbusConn'
                 /\ dbusConn' => last'.attempts <= maxRetries
                 /\ ~dbusConn' => last'.attempts % maxRetries = 0]_vars

\* main() has connected at the second attempt
C26_Witness ==
    last.op = "start" /\ last.attempts = 2 /\ dbusConn /\ last.errs = {}

----------------------------------------------------------------------------
(* C27: the scx value of a pill (checked under SpecEat) *)

\* second words of an scx value, with the mode that goes with each: the
\* integer when it is one of 0..4, else 0
ModeTable ==
    (<<"0">> :> 0) @@ (<<"1">> :> 1) @@ (<<"2">> :> 2) @@ (<<"3">> :> 3) @@ (<<"4">> :> 4)
    @@ (<<"5">> :> 0) @@ (<<"9">> :> 0) @@ (<<"1", "2">> :> 0) @@ (<<"-", "1">> :> 0)
    @@ (<<"+", "3">> :> 3) @@ (<<"x">> :> 0) @@ (<<"1", "x">> :> 0) @@ (<<>> :> 0)

\* the positions of the calls of op among the bus calls
CallsOf(calls, op) == {i \in 1..Len(calls) : calls[i].op = op}

\* C27: the mode of an scx value is its second word when that is an integer
\* in 0..4 and 0 when the word is missing, not an integer or out of range.
\* An eatPill of a pill whose scx value is "none" calls StopScheduler, once
\* when the bus is connected and eatPill returns, and never
\* SwitchScheduler; with any other value it never calls StopScheduler and
\* calls SwitchScheduler at most once, with the first word as name and
\* that mode, a number in 0..4.
C27_ScxValue ==
    /\ scxMode(<<<<"l">>>>) = 0
    /\ \A w \in DOMAIN ModeTable : scxMode(<<<<"l">>, w>>) = ModeTable[w]
    /\ first.done =>
         LET settings == Settings(cfg, first.pillName)
             stops    == CallsOf(last.calls, "StopScheduler")
             switches == CallsOf(last.calls, "SwitchScheduler")
         IN  "scx" \in DOMAIN settings =>
               LET args == Split(settings["scx"])
                   mode == IF Len(args) > 1 THEN ModeTable[args[2]] ELSE 0
               IN  /\ settings["scx"] = none =>
                        /\ switches = {}
                        /\ Cardinality(stops) <= 1
                        /\ (~last.panic /\ "connect" \notin last.errs) =>
                             Cardinality(stops) = 1
                   /\ settings["scx"] # none =>
                        /\ stops = {}
                        /\ Cardinality(switches) <= 1
                        /\ \A i \in switches :
                             /\ last.calls[i] = Call("SwitchScheduler", args[1], mode)
                             /\ last.calls[i].mode \in 0..4

\* eatPill of "ai", whose scx value is "b 9": SwitchScheduler("b", 0)
C27_Witness ==
    /\ pc = "eat1"
    /\ first.pillName = "ai"
    /\ Settings(cfg, "ai")["scx"] = <<"b", " ", "9">>
    /\ CallsOf(last.calls, "SwitchScheduler") # {}
    /\ Count(last.calls, Call("SwitchScheduler", <<"b">>, 0)) = 1

----------------------------------------------------------------------------
(* C28: a process whose user or command line cannot be read *)

\* C28 as stated: a scan creates no record for a process whose user or
\* command line it fails to read, so that every record it creates holds the
\* command line of its process.
C28_NoRecordOnFailure ==
    [][ScanStep =>
         \A p \in last'.cached :
           p \in DOMAIN knownProcs' => knownProcs'[p].Cmdline = os[p].cmd]_vars

----------------------------------------------------------------------------
(* C29: checkTriggerMatch, applied to one command line (SpecMatch) *)

\* a manager with its configuration, and a process with some command line
InitMatch ==
    /\ cfg \in Configs \cup {CfgMany}
    /\ \E cmd \in CmdLines :
         os = <<[user |-> userName, cmd |-> cmd, name |-> "game", ppid |-> 0]>>
    /\ events = 0
    /\ CurrentPill = ""
    /\ currentProc = 0
    /\ currentParent = 0
    /\ knownProcs = <<>>
    /\ currentScan = {}
    /\ dbusConn = FALSE
    /\ pc = "match0"
    /\ exitCode = -1
    /\ sigChan = 0
    /\ restartChan = 0
    /\ last = NoObs
    /\ first = NoFirst
    /\ at = InitAt
    /\ scans = 0

\* pm.checkTriggerMatch(cmd), the range over pm.Triggers in any order
MatchStep ==
    /\ pc = "match0"
    /\ \E pick \in MatchingPills(cfg, os[1].cmd) \cup {""} :
         last' = [NoObs EXCEPT !.op = "match",
                               !.newPill = checkTriggerMatch(cfg, os[1].cmd, pick)]
    /\ pc' = "match1"
    /\ UNCHANGED <<cfg, os, events, CurrentPill, currentProc, currentParent, knownProcs,
                   currentScan, dbusConn, exitCode, sigChan, restartChan, first, at, scans>>

NextMatch == MatchStep

SpecMatch == InitMatch /\ [][NextMatch]_vars

\* C29: checkTriggerMatch(cmd) returns "" exactly when cmd contains none
\* of the triggers, and else the pill bound to a trigger that cmd contains.
C29_Match ==
    pc = "match1" =>
      LET contained == {t \in DOMAIN cfg.Triggers : Contains(os[1].cmd, t)}
      IN  /\ last.newPill = "" <=> contained = {}
          /\ contained # {} => \E t \in contained : cfg.Triggers[t] = last.newPill

\* "xga" contains the triggers "g", "xg" and "a", bound to two pills: the
\* call has returned the pill of "xg"
C29_Witness ==
    /\ pc = "match1"
    /\ cfg = CfgMany
    /\ os[1].cmd = <<"x", "g", "a">>
    /\ last.newPill = "ai"

----------------------------------------------------------------------------
(* C30: a pending signal is served (SpecFair: the select loop of SpecLoop, *)
(* with the scheduling of the select)                                      *)

\* The scheduling of main(): a select chooses among its ready cases at
\* random, so that the case of sigChan, ready whenever main() comes back to
\* the select with a signal pending, is taken at last.
Fairness == SF_vars(LoopSignal)

SpecFair == Init /\ [][NextLoop]_vars /\ Fairness

\* main() is in the body of a case of the select
InBody == pc = "loop" /\ at.main \in {"scanProcesses", "shutdown", "restart"}

\* every external control call returns: main() leaves the body of a case
CallsReturn == [](InBody => <>(~InBody))

\* C30 as stated: if every external control call returns then, once a
\* signal is pending on sigChan, main() takes the signal branch at last,
\* the pill "default" is applied and the process exits with status 0.
C30_SignalServed ==
    CallsReturn =>
      ((sigChan > 0) ~> (pc = "exited" /\ exitCode = 0 /\ last.op = "signal"
                         /\ CurrentPill = "default"))

----------------------------------------------------------------------------
(* C31: the first scan *)

\* C31: the first scan that lists the processes, the one that finds the
\* current pill "", takes the revert branch whatever it has matched: it
\* invokes eatPill(nil, "default") and nothing else, and returns with the
\* pill "default", no anchor and no valid parent.  A pill other than
\* "default" becomes current only in a scan that started with a pill.
C31_FirstScanDefault ==
    [][/\ (ScanStep /\ last'.pill0 = "") =>
            /\ last'.decision = "revert"
            /\ \A i \in 1..Len(last'.eats) : last'.eats[i] = <<0, "default">>
            /\ pc' = "loop" =>
                 /\ last'.eats = <<<<0, "default">>>>
                 /\ CurrentPill' = "default"
                 /\ currentProc' = 0 /\ currentParent' = 0
       /\ (CurrentPill' # CurrentPill /\ CurrentPill' # "default") =>
            (ScanStep /\ last'.pill0 # "")]_vars

\* the first scan has matched a process of a pill of the catalog and has
\* returned with "default" and no anchor
C31_Witness ==
    /\ last.op = "scan" /\ pc = "loop"
    /\ last.pill0 = "" /\ last.newPill \in DOMAIN cfg.Pills /\ last.trig # 0
    /\ CurrentPill = "default" /\ currentProc = 0 /\ currentParent = 0

----------------------------------------------------------------------------
(* C32: a scan while the anchor lives *)

\* C32: in a scan that finds a process with the pid of the anchor, no
\* process is matched against the triggers (no pill and no other process
\* is retained), no branch of the decision is taken, eatPill is not
\* invoked, no bus call is issued, and the current pill, the anchor and
\* the valid parent stay as they were.
C32_AnchorAlive ==
    [][(ScanStep /\ last'.anchor0) =>
         /\ last'.keep /\ last'.newPill = "" /\ last'.trig = last'.proc0
         /\ last'.decision = "none"
         /\ last'.eats = <<>> /\ last'.calls = <<>> /\ last'.attempts = 0
         /\ CurrentPill' = CurrentPill
         /\ currentProc' = currentProc
         /\ currentParent' = currentParent]_vars

\* a scan with the anchor alive, while a cached process other than the
\* anchor has a command line with the trigger of another pill of the catalog
C32_Witness ==
    /\ last.op = "scan" /\ pc = "loop" /\ last.anchor0
    /\ currentProc = last.proc0
    /\ \E p \in (DOMAIN knownProcs) \ {currentProc} :
         (MatchingPills(cfg, knownProcs[p].Cmdline) \cap DOMAIN cfg.Pills) \ {CurrentPill} # {}

----------------------------------------------------------------------------
(* C33: the anchor of a pill *)

\* C33 as stated: when a scan has applied a pill with a process as anchor
\* and has returned, the cached command line of that process contains a
\* trigger bound to that pill.
C33_AnchorMatchesPill ==
    [][(ScanStep /\ pc' = "loop") =>
         \A i \in 1..Len(last'.eats) :
           last'.eats[i][1] # 0 =>
             /\ last'.eats[i][1] \in DOMAIN knownProcs'
             /\ last'.eats[i][2] \in
                  MatchingPills(cfg, knownProcs'[last'.eats[i][1]].Cmdline)]_vars

----------------------------------------------------------------------------
(* C34: no anchor under "default" *)

\* C34 as stated: whenever the current pill is "default", the anchor and
\* the valid parent are 0.
C34_DefaultNoAnchor ==
    CurrentPill = "default" => (currentProc = 0 /\ currentParent = 0)

----------------------------------------------------------------------------
(* C35: the cache after a scan *)

\* C35: after a scan the cached pids are the pids marked as seen by that
\* scan, and every record names the invoking user as owner; the record
\* that a scan creates holds the command line that Cmdline() returned, the
\* one of the process or none when the call failed; and no step changes
\* the command line, the name or the owner in a record that stays cached.
C35_CacheAfterScan ==
    /\ [](last.op = "scan" =>
            /\ DOMAIN knownProcs = currentScan
            /\ \A q \in DOMAIN knownProcs : knownProcs[q].Username = userName)
    /\ [][/\ ScanStep =>
               \A p \in last'.cached \cap DOMAIN knownProcs' :
                 /\ knownProcs'[p].Cmdline \in {os[p].cmd, <<>>}
                 /\ os[p].user = userName
          /\ \A q \in (DOMAIN knownProcs) \cap (DOMAIN knownProcs') :
               /\ knownProcs'[q].Cmdline = knownProcs[q].Cmdline
               /\ knownProcs'[q].Name = knownProcs[q].Name
               /\ knownProcs'[q].Username = knownProcs[q].Username]_vars

\* after a scan, a record cached by an earlier scan holds a command line
\* that the process with that pid does not have any more
C35_Witness ==
    /\ last.op = "scan" /\ pc = "loop"
    /\ \E q \in (DOMAIN knownProcs) \ last.cached :
         /\ Alive(os, q)
         /\ knownProcs[q].Cmdline # <<>>
         /\ knownProcs[q].Cmdline # os[q].cmd

----------------------------------------------------------------------------
(* C36: the nice value of a scan *)

\* C36: every priority change of a scan is requested with the nice value
\* of the pill that was current when the scan started, for a process that
\* is the anchor, a child of the valid parent or a child of a flagged
\* process as they were when the scan started or as the scan has flagged
\* them; a scan that has changed the pill and returned leaves no process
\* flagged; and the next scan, if no call fails in it, renices the new
\* anchor when the new pill has a valid nice value.
C36_NiceOfScanStart ==
    [][ScanStep =>
         /\ \A x \in last'.prio :
              /\ NiceOf(cfg, last'.pill0).isNice
              /\ x[2] = NiceOf(cfg, last'.pill0).nice
              /\ \/ x[1] = last'.proc0
                 \/ os[x[1]].ppid = last'.parent0
                 \/ os[x[1]].ppid \in last'.flagged0 \cup Reniced(last')
         /\ (CurrentPill' # last'.pill0 /\ pc' = "loop") =>
              \A q \in DOMAIN knownProcs' : ~knownProcs'[q].Reniced
         /\ (events' = events /\ NiceOf(cfg, CurrentPill).isNice /\ Eligible(currentProc)) =>
              <<currentProc, NiceOf(cfg, CurrentPill).nice, TRUE>> \in last'.prio]_vars

\* a scan has switched to a pill with a valid nice value and has returned:
\* the anchor is cached, not flagged and not reniced
C36_Witness ==
    /\ last.op = "scan" /\ pc = "loop"
    /\ last.decision = "switch" /\ CurrentPill # last.pill0
    /\ NiceOf(cfg, CurrentPill).isNice
    /\ Eligible(currentProc)
    /\ last.prio = {}

----------------------------------------------------------------------------
(* C37: a scan whose listing fails *)

\* C37: a call of scanProcesses in which process.Processes() fails leaves
\* the current pill, the anchor, the valid parent, every record of the
\* cache with its flag, the marks of the last scan and the connection as
\* they were, calls neither eatPill nor the bus nor Setpriority, and
\* returns to the loop.
C37_ListingFails ==
    [][last'.op = "scanfail" =>
         /\ CurrentPill' = CurrentPill
         /\ currentProc' = currentProc /\ currentParent' = currentParent
         /\ knownProcs' = knownProcs
         /\ currentScan' = currentScan
         /\ dbusConn' = dbusConn
         /\ last'.eats = <<>> /\ last'.calls = <<>> /\ last'.attempts = 0
         /\ last'.prio = {}
         /\ last'.purged = {} /\ last'.cached = {}
         /\ pc' = "loop" /\ exitCode' = exitCode]_vars

\* the listing has failed while a pill of the catalog was current, with an
\* anchor and a flagged record: they are still there
C37_Witness ==
    /\ last.op = "scanfail"
    /\ CurrentPill \in DOMAIN cfg.Pills
    /\ currentProc # 0
    /\ \E q \in DOMAIN knownProcs : knownProcs[q].Reniced
    /\ currentScan # {}

----------------------------------------------------------------------------
(* C38: eatPill when its calls fail *)

====
